---------------------------- MODULE Spec2Model ----------------------------
(***************************************************************************)
(* A model of the lepisense input API: the device-deployment assignment   *)
(* table and its write path, the inference job ledger, the upload         *)
(* orchestrator and the construction of object-store key prefixes.        *)
(*                                                                         *)
(* Python strings that the code transforms or compares (names, file       *)
(* names, prefixes) are sequences of code points; identifiers that are    *)
(* only compared for equality are TLA+ strings or numbers.  A calendar    *)
(* date is a record [year, month, day].                                   *)
(***************************************************************************)
EXTENDS Integers, Sequences, FiniteSets, TLC

VARIABLES
    organisation,       \* table Organisation: name -> row
    country,            \* table Country: code -> row
    network,            \* table Network: id -> row
    devicetype,         \* table DeviceType: name -> row
    device,             \* table Device: id -> row
    deployment,         \* table Deployment: id -> row
    deploymentdevice,   \* table DeploymentDevice: sequence of rows, id = index
    inference,          \* table Inference: sequence of rows, id = index
    store,              \* the object store: key -> ContentType of the object
    last,               \* the last request that completed: operation, outcome
    upload,             \* the upload request in progress, its transfer tasks
    query,              \* inputs and results of the prefix functions
    inflight            \* server process -> its request between two steps

vars == <<organisation, country, network, devicetype, device, deployment,
          deploymentdevice, inference, store, last, upload, query,
          inflight>>

\* The reference tables, which no modelled request writes.
refs == <<organisation, country, network, devicetype, device, deployment>>

(***************************************************************************)
(* Bounds of the model.                                                    *)
(***************************************************************************)
MaxRows == 2        \* rows the assignment table may grow to
MaxInference == 2   \* rows the inference ledger may grow to
MaxFiles == 2       \* files in one upload batch

(***************************************************************************)
(* Strings (str), as sequences of code points.                             *)
(***************************************************************************)
\* str.upper() and str.lower() on ASCII letters.
upper(s) == [i \in 1..Len(s) |-> IF s[i] \in 97..122 THEN s[i] - 32 ELSE s[i]]

lower(s) == [i \in 1..Len(s) |-> IF s[i] \in 65..90 THEN s[i] + 32 ELSE s[i]]

\* a < b on strings: the first differing code point decides, a proper
\* prefix is smaller.
StrLess(a, b) ==
    \/ \E k \in 1..Len(a) :
          /\ k <= Len(b)
          /\ a[k] < b[k]
          /\ \A j \in 1..(k - 1) : a[j] = b[j]
    \/ /\ Len(a) < Len(b)
       /\ \A j \in 1..Len(a) : a[j] = b[j]

\* The decimal digits of a natural number.
RECURSIVE Digits(_)
Digits(n) == IF n < 10 THEN <<48 + n>> ELSE Digits(n \div 10) \o <<48 + (n % 10)>>

\* f"{n}" for an int.
Str(n) == IF n < 0 THEN <<45>> \o Digits(0 - n) ELSE Digits(n)

\* f"{n:02d}" for an int.
Pad2(n) == IF Len(Str(n)) < 2 THEN <<48>> \o Str(n) ELSE Str(n)

\* "/"
Slash == <<47>>

\* The names the model uses.
ABC == <<65, 66, 67>>
OLD == <<79, 76, 68>>
GB == <<71, 66>>
N1 == <<110, 49>>
S1 == <<115, 49>>
S2 == <<115, 50>>
S3 == <<115, 51>>
MOTH == <<109, 111, 116, 104>>
AUDIO == <<97, 117, 100, 105, 111>>

(***************************************************************************)
(* Calendar dates (datetime.date).                                         *)
(***************************************************************************)
IsLeap(y) == (y % 4 = 0 /\ y % 100 # 0) \/ y % 400 = 0

DaysInMonth(y, m) ==
    IF m = 2 THEN (IF IsLeap(y) THEN 29 ELSE 28)
    ELSE IF m \in {4, 6, 9, 11} THEN 30 ELSE 31

\* date(year, month, day) raises ValueError unless this holds.
IsValidDate(y, m, d) ==
    /\ y >= 1 /\ y <= 9999
    /\ m >= 1 /\ m <= 12
    /\ d >= 1 /\ d <= DaysInMonth(y, m)

Date(y, m, d) == [year |-> y, month |-> m, day |-> d]

\* a < b on dates.
DateLess(a, b) ==
    \/ a.year < b.year
    \/ a.year = b.year /\ a.month < b.month
    \/ a.year = b.year /\ a.month = b.month /\ a.day < b.day

DateLeq(a, b) == a = b \/ DateLess(a, b)

\* date + timedelta(days=1)
NextDay(a) ==
    IF a.day < DaysInMonth(a.year, a.month) THEN Date(a.year, a.month, a.day + 1)
    ELSE IF a.month < 12 THEN Date(a.year, a.month + 1, 1)
    ELSE Date(a.year + 1, 1, 1)

\* date - timedelta(days=1)
PrevDay(a) ==
    IF a.day > 1 THEN Date(a.year, a.month, a.day - 1)
    ELSE IF a.month > 1 THEN Date(a.year, a.month - 1, DaysInMonth(a.year, a.month - 1))
    ELSE Date(a.year - 1, 12, 31)

\* The first day of the window of dates the requests draw from.
FirstDay == Date(2024, 2, 28)

\* 2024-02-28, 2024-02-29, 2024-03-01
Dates == {FirstDay, NextDay(FirstDay), NextDay(NextDay(FirstDay))}

(***************************************************************************)
(* Reference rows the requests are checked against.  Device "d3" and      *)
(* deployment 3 are soft-deleted; device "d9" and deployment 9 are in no  *)
(* table.                                                                  *)
(***************************************************************************)
DeviceIds == {"d1", "d2", "d3", "d9"}
DeploymentIds == {1, 2, 3, 9}

InitOrganisation == [n \in {ABC, OLD} |-> [deleted |-> (n = OLD)]]

InitCountry == [c \in {GB} |-> [deleted |-> FALSE]]

InitNetwork ==
    [i \in {1} |->
        [organisation_name |-> ABC,
         country_code |-> GB,
         name |-> N1,
         deleted |-> FALSE]]

InitDeviceType ==
    [n \in {MOTH, AUDIO} |-> [night_session |-> (n = MOTH), deleted |-> FALSE]]

\* current_deployment_id 0 stands for None.
InitDevice ==
    [i \in {"d1", "d2", "d3"} |->
        [devicetype_name |-> IF i = "d2" THEN AUDIO ELSE MOTH,
         current_deployment_id |-> 0,
         deleted |-> (i = "d3")]]

InitDeployment ==
    [i \in {1, 2, 3} |->
        [network_id |-> 1,
         devicetype_name |-> MOTH,
         name |-> IF i = 1 THEN S1 ELSE IF i = 2 THEN S2 ELSE S3,
         deleted |-> (i = 3)]]

(***************************************************************************)
(* Existence lookups.  Each returns "True" or "False", or "Conflict" when *)
(* the row exists but is soft-deleted (the HTTPException 409 it raises).  *)
(***************************************************************************)
\* A lookup that takes any row for a live one.
device_exists_any_row(id) ==
    IF id \in DOMAIN device THEN "True" ELSE "False"

device_exists(id) ==
    IF id \in DOMAIN device
    THEN (IF device[id].deleted THEN "Conflict" ELSE "True")
    ELSE "False"

deployment_exists(id) ==
    IF id \in DOMAIN deployment
    THEN (IF deployment[id].deleted THEN "Conflict" ELSE "True")
    ELSE "False"

(***************************************************************************)
(* The assignment write path.                                              *)
(***************************************************************************)
DepDevIds == 1..Len(deploymentdevice)

\* where(start_date < depdev.end_date).where(end_date >= depdev.start_date)
OverlapTest(row, depdev) ==
    /\ DateLess(row.start_date, depdev.end_date)
    /\ DateLeq(depdev.start_date, row.end_date)

\* The rows the overlap query of check_valid_deploymentdevice selects.
Overlapping(depdev) ==
    {i \in DepDevIds :
        /\ deploymentdevice[i].device_id = depdev.device_id
        /\ deploymentdevice[i].deleted = FALSE
        /\ OverlapTest(deploymentdevice[i], depdev)}

\* A validation that does not compare the two dates.
check_valid_without_date_order(depdev) ==
    IF deployment_exists(depdev.deployment_id) = "Conflict" THEN "Conflict"
    ELSE IF deployment_exists(depdev.deployment_id) = "False" THEN "NotFound"
    ELSE IF device_exists(depdev.device_id) = "Conflict" THEN "Conflict"
    ELSE IF device_exists(depdev.device_id) = "False" THEN "NotFound"
    ELSE IF Overlapping(depdev) # {} THEN "Conflict"
    ELSE "OK"

\* "OK" when the function returns, else the error it raises.
check_valid_deploymentdevice(depdev) ==
    IF deployment_exists(depdev.deployment_id) = "Conflict" THEN "Conflict"
    ELSE IF deployment_exists(depdev.deployment_id) = "False" THEN "NotFound"
    ELSE IF device_exists(depdev.device_id) = "Conflict" THEN "Conflict"
    ELSE IF device_exists(depdev.device_id) = "False" THEN "NotFound"
    ELSE IF DateLess(depdev.end_date, depdev.start_date) THEN "BadRequest"
    ELSE IF Overlapping(depdev) # {} THEN "Conflict"
    ELSE "OK"

\* "OK" when a row with this id and this deleted flag exists, else NotFound.
get_deploymentdevice_by_id(id, deleted) ==
    IF id \in DepDevIds /\ deploymentdevice[id].deleted = deleted
    THEN "OK" ELSE "NotFound"

\* The request bodies (DeploymentDeviceBase) the model draws from: every pair
\* of dates for device "d1" and every range that starts on the first day for
\* device "d2", on a live deployment, and one body for each way of naming a
\* deleted or missing device or deployment.
Bodies ==
    [device_id : {"d1"}, deployment_id : {1},
     start_date : Dates, end_date : Dates]
    \cup [device_id : {"d2"}, deployment_id : {1},
          start_date : {FirstDay}, end_date : Dates]
    \cup [device_id : {"d3", "d9"}, deployment_id : {1},
          start_date : {FirstDay}, end_date : {FirstDay}]
    \cup [device_id : {"d1"}, deployment_id : {3, 9},
          start_date : {FirstDay}, end_date : {FirstDay}]

Done(op, status) == [op |-> op, status |-> status]

create_deploymentdevice(body) ==
    LET valid == check_valid_deploymentdevice(body) IN
    /\ valid = "OK" => Len(deploymentdevice) < MaxRows
    /\ deploymentdevice' =
         IF valid = "OK"
         THEN Append(deploymentdevice,
                     [device_id |-> body.device_id,
                      deployment_id |-> body.deployment_id,
                      start_date |-> body.start_date,
                      end_date |-> body.end_date,
                      deleted |-> FALSE])
         ELSE deploymentdevice
    /\ last' = Done("create_deploymentdevice", valid)

update_deploymentdevice(id, body) ==
    LET valid == check_valid_deploymentdevice(body)
        status == IF valid # "OK" THEN valid
                  ELSE get_deploymentdevice_by_id(id, FALSE) IN
    /\ deploymentdevice' =
         IF status = "OK"
         THEN [deploymentdevice EXCEPT
                  ![id] = [device_id |-> body.device_id,
                           deployment_id |-> body.deployment_id,
                           start_date |-> body.start_date,
                           end_date |-> body.end_date,
                           deleted |-> @.deleted]]
         ELSE deploymentdevice
    /\ last' = Done("update_deploymentdevice", status)

delete_deploymentdevice(id) ==
    LET status == get_deploymentdevice_by_id(id, FALSE) IN
    /\ deploymentdevice' =
         IF status = "OK"
         THEN [deploymentdevice EXCEPT ![id].deleted = TRUE]
         ELSE deploymentdevice
    /\ last' = Done("delete_deploymentdevice", status)

undelete_deploymentdevice(id) ==
    LET found == get_deploymentdevice_by_id(id, TRUE)
        status == IF found # "OK" THEN found
                  ELSE check_valid_deploymentdevice(deploymentdevice[id]) IN
    /\ deploymentdevice' =
         IF status = "OK"
         THEN [deploymentdevice EXCEPT ![id].deleted = FALSE]
         ELSE deploymentdevice
    /\ last' = Done("undelete_deploymentdevice", status)

\* Row ids a request may name: those of the table and one beyond it.
ReqIds == 1..(Len(deploymentdevice) + 1)

CreateDeploymentDevice ==
    /\ \E body \in Bodies : create_deploymentdevice(body)
    /\ UNCHANGED <<refs, inference, store, upload, query, inflight>>

UpdateDeploymentDevice ==
    /\ \E id \in ReqIds, body \in Bodies : update_deploymentdevice(id, body)
    /\ UNCHANGED <<refs, inference, store, upload, query, inflight>>

DeleteDeploymentDevice ==
    /\ \E id \in ReqIds : delete_deploymentdevice(id)
    /\ UNCHANGED <<refs, inference, store, upload, query, inflight>>

UndeleteDeploymentDevice ==
    /\ \E id \in ReqIds : undelete_deploymentdevice(id)
    /\ UNCHANGED <<refs, inference, store, upload, query, inflight>>

\* The server processes that share the database, and none of them between
\* two steps of a request.
Servers == {"p1", "p2"}
NoRequests == [p \in Servers |-> [pc |-> "idle"]]

NoUpload == [pc |-> "idle"]
NoQuery == [pc |-> "idle"]

InitAssign ==
    /\ organisation = InitOrganisation
    /\ country = InitCountry
    /\ network = InitNetwork
    /\ devicetype = InitDeviceType
    /\ device = InitDevice
    /\ deployment = InitDeployment
    /\ deploymentdevice = <<>>
    /\ inference = <<>>
    /\ store = <<>>
    /\ last = Done("none", "OK")
    /\ inflight = NoRequests
    /\ upload = NoUpload
    /\ query = NoQuery

NextAssign ==
    \/ CreateDeploymentDevice
    \/ UpdateDeploymentDevice
    \/ DeleteDeploymentDevice
    \/ UndeleteDeploymentDevice

SpecAssign == InitAssign /\ [][NextAssign]_vars

\* The write path again, with the bodies drawn from every order of two dates
\* for one device and one deployment.
DateBodies ==
    [device_id : {"d1"}, deployment_id : {1},
     start_date : Dates, end_date : Dates]

CreateWithDates ==
    /\ \E body \in DateBodies : create_deploymentdevice(body)
    /\ UNCHANGED <<refs, inference, store, upload, query, inflight>>

UpdateWithDates ==
    /\ \E id \in ReqIds, body \in DateBodies : update_deploymentdevice(id, body)
    /\ UNCHANGED <<refs, inference, store, upload, query, inflight>>

NextDates ==
    \/ CreateWithDates
    \/ UpdateWithDates
    \/ DeleteDeploymentDevice
    \/ UndeleteDeploymentDevice

SpecDates == InitAssign /\ [][NextDates]_vars

(***************************************************************************)
(* The write path in two server processes.  Inside one process a handler  *)
(* runs from its first statement to its response without an await, so two *)
(* requests interleave only when they are served by different processes;  *)
(* each has its own session on the shared database (read committed, no    *)
(* lock, no exclusion constraint on the table).                           *)
(***************************************************************************)
\* The bodies of the racing requests: ranges that the overlap query takes
\* for overlapping in either order.
RaceBodies ==
    [device_id : {"d1"}, deployment_id : {1, 2},
     start_date : {FirstDay},
     end_date : {NextDay(FirstDay), NextDay(NextDay(FirstDay))}]

\* The processes that have passed the check and not yet committed.
Checked == {p \in Servers : inflight[p].pc = "checked"}

\* An insert that runs the overlap query once more before it commits.
create_commit_rechecked(p) ==
    LET body == inflight[p].body
        valid == check_valid_deploymentdevice(body) IN
    /\ deploymentdevice' =
         IF valid = "OK"
         THEN Append(deploymentdevice,
                     [device_id |-> body.device_id,
                      deployment_id |-> body.deployment_id,
                      start_date |-> body.start_date,
                      end_date |-> body.end_date,
                      deleted |-> FALSE])
         ELSE deploymentdevice
    /\ last' = Done("create_deploymentdevice", valid)

\* create_deploymentdevice after the check: db.add, db.commit.
create_commit(p) ==
    LET body == inflight[p].body IN
    /\ deploymentdevice' =
         Append(deploymentdevice,
                [device_id |-> body.device_id,
                 deployment_id |-> body.deployment_id,
                 start_date |-> body.start_date,
                 end_date |-> body.end_date,
                 deleted |-> FALSE])
    /\ last' = Done("create_deploymentdevice", "OK")

\* create_deploymentdevice up to the end of check_valid_deploymentdevice.
CreateChecks ==
    /\ \E p \in Servers, body \in RaceBodies :
         LET valid == check_valid_deploymentdevice(body) IN
         /\ inflight[p].pc = "idle"
         /\ Len(deploymentdevice) + Cardinality(Checked) < MaxRows
         /\ IF valid = "OK"
            THEN /\ inflight' = [inflight EXCEPT
                                    ![p] = [pc |-> "checked", body |-> body]]
                 /\ last' = last
            ELSE /\ inflight' = inflight
                 /\ last' = Done("create_deploymentdevice", valid)
    /\ UNCHANGED <<refs, deploymentdevice, inference, store, upload, query>>

CreateCommits ==
    /\ \E p \in Checked :
         /\ create_commit(p)
         /\ inflight' = [inflight EXCEPT ![p] = [pc |-> "idle"]]
    /\ UNCHANGED <<refs, inference, store, upload, query>>

NextRaceAssign ==
    \/ CreateChecks
    \/ CreateCommits
    \/ DeleteDeploymentDevice
    \/ UndeleteDeploymentDevice

SpecRaceAssign == InitAssign /\ [][NextRaceAssign]_vars


(***************************************************************************)
(* The inference job ledger.                                               *)
(***************************************************************************)
InferenceIds == 1..Len(inference)

\* A lookup that selects on the session date alone and takes the rows of
\* another device for absent.
InferenceForOtherDevice(device_id, session_date) ==
    {i \in InferenceIds :
        /\ inference[i].device_id # device_id
        /\ inference[i].session_date = session_date
        /\ inference[i].deleted = FALSE}

\* The rows the lookup of create_inference selects.
InferenceFor(device_id, session_date) ==
    {i \in InferenceIds :
        /\ inference[i].device_id = device_id
        /\ inference[i].session_date = session_date
        /\ inference[i].deleted = FALSE}

\* A new row that is left marked completed.
NewInferenceCompleted(device_id, deployment_id, session_date) ==
    [device_id |-> device_id,
     deployment_id |-> deployment_id,
     session_date |-> session_date,
     task_arn |-> "None",
     completed |-> TRUE,
     deleted |-> FALSE]

\* Inference(device_id=..., deployment_id=..., session_date=..., completed=False)
NewInference(device_id, deployment_id, session_date) ==
    [device_id |-> device_id,
     deployment_id |-> deployment_id,
     session_date |-> session_date,
     task_arn |-> "None",
     completed |-> FALSE,
     deleted |-> FALSE]

\* A commit that writes the row whether or not it was changed.
FlushedAlways(effect) == effect # "failed"

\* What the session writes at db.commit(): a row when the instance is new or
\* one of its attributes was assigned, nothing otherwise.
Flushed(effect) == effect \in {"inserted", "reopened"}

\* A ledger write that adds a row on every call.
create_inference_always(device_id, deployment_id, session_date) ==
    {[raised |-> TRUE, effect |-> "failed", wrote |-> FALSE, rows |-> inference],
     [raised |-> FALSE, effect |-> "inserted", wrote |-> TRUE,
      rows |-> Append(inference,
                      NewInference(device_id, deployment_id, session_date))]}

\* The outcomes of a call of create_inference: the table it leaves and the
\* branch it took.  first() on a query without ORDER BY returns any of the
\* selected rows.  The function catches nothing, so a database error (the
\* connection lost at exec or commit) leaves the table as it was and
\* propagates to the caller.
\* A ledger call that also records the deployment it was passed on the row
\* it found.
create_inference_redeploying(device_id, deployment_id, session_date) ==
    LET found == InferenceFor(device_id, session_date) IN
    {[raised |-> TRUE, effect |-> "failed", wrote |-> FALSE, rows |-> inference]}
    \cup
    (IF found # {}
     THEN {IF inference[i].completed
           THEN [raised |-> FALSE, effect |-> "reopened",
                 wrote |-> TRUE,
                 rows |-> [inference EXCEPT ![i].completed = FALSE,
                                            ![i].deployment_id = deployment_id]]
           ELSE [raised |-> FALSE, effect |-> "none",
                 wrote |-> TRUE,
                 rows |-> [inference EXCEPT
                              ![i].deployment_id = deployment_id]] : i \in found}
     ELSE {[raised |-> FALSE, effect |-> "inserted",
            wrote |-> TRUE,
            rows |-> Append(inference,
                            NewInference(device_id, deployment_id,
                                         session_date))]})

create_inference(device_id, deployment_id, session_date) ==
    LET found == InferenceFor(device_id, session_date) IN
    {[raised |-> TRUE, effect |-> "failed", wrote |-> FALSE, rows |-> inference]}
    \cup
    (IF found # {}
     THEN {IF inference[i].completed
           THEN [raised |-> FALSE, effect |-> "reopened",
                 wrote |-> Flushed("reopened"),
                 rows |-> [inference EXCEPT ![i].completed = FALSE]]
           ELSE [raised |-> FALSE, effect |-> "none",
                 wrote |-> Flushed("none"),
                 rows |-> inference] : i \in found}
     ELSE {[raised |-> FALSE, effect |-> "inserted",
            wrote |-> Flushed("inserted"),
            rows |-> Append(inference,
                            NewInference(device_id, deployment_id,
                                         session_date))]})

\* update_inference calls check_valid_inference(db, body, id), a function of
\* two parameters, before its try block: the call raises TypeError on every
\* request, so the handler ends with an internal error and writes nothing.
check_valid_inference_call == "InternalError"

update_inference(id, body) ==
    /\ inference' = inference
    /\ last' = [op |-> "update_inference",
                status |-> check_valid_inference_call,
                id |-> id]

\* The session dates the ledger calls of the model draw from.
SessionDates == {FirstDay, NextDay(FirstDay)}

\* The ledger has room for the row a call may insert.
LedgerRoom(device_id, session_date) ==
    InferenceFor(device_id, session_date) # {} \/ Len(inference) < MaxInference

\* The bodies (InferencePatch) the update requests draw from.
InferenceBodies ==
    [device_id : {"d1", "d2"}, deployment_id : {1},
     session_date : SessionDates, completed : BOOLEAN,
     task_arn : {"None"}]

\* A call of create_inference with the arguments an upload may pass.
CreateInference ==
    /\ \E device_id \in {"d1", "d2"}, deployment_id \in {1, 2},
          session_date \in SessionDates :
         \E out \in create_inference(device_id, deployment_id, session_date) :
            /\ LedgerRoom(device_id, session_date)
            /\ inference' = out.rows
            /\ last' = [op |-> "create_inference",
                        status |-> IF out.raised THEN "InternalError" ELSE "OK",
                        effect |-> out.effect,
                        wrote |-> out.wrote,
                        device_id |-> device_id,
                        deployment_id |-> deployment_id,
                        session_date |-> session_date]
    /\ UNCHANGED <<refs, deploymentdevice, store, upload, query, inflight>>

UpdateInference ==
    /\ \E id \in 1..(Len(inference) + 1), body \in InferenceBodies :
         update_inference(id, body)
    /\ UNCHANGED <<refs, deploymentdevice, store, upload, query, inflight>>

\* The inference worker, a separate program that shares the table, takes a
\* job (task_arn set) and closes it (completed, task_arn reset to None).
WorkerStarts ==
    /\ \E i \in InferenceIds :
         /\ ~inference[i].completed
         /\ inference[i].task_arn = "None"
         /\ inference' = [inference EXCEPT ![i].task_arn = "arn"]
    /\ last' = Done("worker", "OK")
    /\ UNCHANGED <<refs, deploymentdevice, store, upload, query, inflight>>

WorkerCompletes ==
    /\ \E i \in InferenceIds :
         /\ inference[i].task_arn = "arn"
         /\ inference' = [inference EXCEPT ![i].completed = TRUE,
                                           ![i].task_arn = "None"]
    /\ last' = Done("worker", "OK")
    /\ UNCHANGED <<refs, deploymentdevice, store, upload, query, inflight>>

InitLedger == InitAssign

NextLedger ==
    \/ CreateInference
    \/ UpdateInference
    \/ WorkerStarts
    \/ WorkerCompletes

SpecLedger == InitLedger /\ [][NextLedger]_vars

(***************************************************************************)
(* The ledger write in two server processes: the end of two uploads, each *)
(* with its own session on the shared database.                           *)
(***************************************************************************)
\* The processes whose lookup found no row and that have not committed.
LookedNone == {p \in Servers : inflight[p].pc = "looked" /\ inflight[p].found = 0}

\* create_inference up to the end of its lookup: the row first() returned
\* (0 for None) and the completed flag the instance was loaded with.
create_inference_lookup(p, device_id, deployment_id, session_date) ==
    LET rows == InferenceFor(device_id, session_date) IN
    \E i \in (IF rows = {} THEN {0} ELSE rows) :
       inflight' = [inflight EXCEPT
                       ![p] = [pc |-> "looked", device_id |-> device_id,
                               deployment_id |-> deployment_id,
                               session_date |-> session_date,
                               found |-> i,
                               completed |-> IF i = 0 THEN FALSE
                                             ELSE inference[i].completed]]

\* A commit that looks the row up once more and inserts only when there is
\* still none.
create_inference_commit_relooked(p) ==
    LET r == inflight[p]
        rows == InferenceFor(r.device_id, r.session_date) IN
    \/ /\ inference' = inference
       /\ last' = [op |-> "create_inference", status |-> "InternalError",
                   effect |-> "failed"]
    \/ /\ rows = {}
       /\ inference' = Append(inference,
                              NewInference(r.device_id, r.deployment_id,
                                           r.session_date))
       /\ last' = [op |-> "create_inference", status |-> "OK",
                   effect |-> "inserted"]
    \/ /\ rows # {}
       /\ inference' = inference
       /\ last' = [op |-> "create_inference", status |-> "OK",
                   effect |-> "none"]

\* create_inference after its lookup: the new instance, or the loaded one
\* with completed reset, is added and committed; a database error leaves
\* the table as it was.
create_inference_commit(p) ==
    LET r == inflight[p] IN
    \/ /\ inference' = inference
       /\ last' = [op |-> "create_inference", status |-> "InternalError",
                   effect |-> "failed"]
    \/ /\ r.found = 0
       /\ inference' = Append(inference,
                              NewInference(r.device_id, r.deployment_id,
                                           r.session_date))
       /\ last' = [op |-> "create_inference", status |-> "OK",
                   effect |-> "inserted"]
    \/ /\ r.found # 0
       /\ r.completed
       /\ inference' = [inference EXCEPT ![r.found].completed = FALSE]
       /\ last' = [op |-> "create_inference", status |-> "OK",
                   effect |-> "reopened"]
    \/ /\ r.found # 0
       /\ ~r.completed
       /\ inference' = inference
       /\ last' = [op |-> "create_inference", status |-> "OK",
                   effect |-> "none"]

InferenceLooksUp ==
    /\ \E p \in Servers, device_id \in {"d1"}, deployment_id \in {1, 2},
          session_date \in SessionDates :
         /\ inflight[p].pc = "idle"
         /\ Len(inference) + Cardinality(LookedNone) < MaxInference
         /\ create_inference_lookup(p, device_id, deployment_id, session_date)
    /\ UNCHANGED <<refs, deploymentdevice, inference, store, last, upload,
                   query>>

InferenceCommits ==
    /\ \E p \in Servers :
         /\ inflight[p].pc = "looked"
         /\ create_inference_commit(p)
         /\ inflight' = [inflight EXCEPT ![p] = [pc |-> "idle"]]
    /\ UNCHANGED <<refs, deploymentdevice, store, upload, query>>

NextRaceLedger ==
    \/ InferenceLooksUp
    \/ InferenceCommits
    \/ WorkerStarts
    \/ WorkerCompletes

SpecRaceLedger == InitLedger /\ [][NextRaceLedger]_vars

(***************************************************************************)
(* The upload orchestrator.                                                *)
(***************************************************************************)
\* File names: "053000.jpg", "140000.jpg" and "x".
F053000 == <<48, 53, 51, 48, 48, 48, 46, 106, 112, 103>>
F140000 == <<49, 52, 48, 48, 48, 48, 46, 106, 112, 103>>
FX == <<120>>
FileNames == {F053000, F140000, FX}

\* "120000" and "jpg"
Noon == <<49, 50, 48, 48, 48, 48>>
JPG == <<106, 112, 103>>

\* The batches (files: List[UploadFile]) the model draws from: up to
\* MaxFiles different names.
Batches ==
    {b \in UNION {[1..n -> FileNames] : n \in 1..MaxFiles} :
        \A i, j \in 1..Len(b) : b[i] = b[j] => i = j}

Dots(name) == {i \in 1..Len(name) : name[i] = 46}

\* filename.split(".")[0]
Stem(name) ==
    IF Dots(name) = {} THEN name
    ELSE SubSeq(name, 1, (CHOOSE i \in Dots(name) : \A j \in Dots(name) : i <= j) - 1)

\* mimetypes.guess_type(filename)[0]: the type of the suffix after the last
\* dot, None when there is no suffix or it is unknown.
guess_type(name) ==
    IF Dots(name) = {} THEN "None"
    ELSE IF SubSeq(name, (CHOOSE i \in Dots(name) : \A j \in Dots(name) : i >= j) + 1,
                   Len(name)) = JPG
         THEN "image/jpeg"
         ELSE "None"

\* The ContentType upload_file passes to the store.
media_type(name) ==
    IF guess_type(name) = "None" THEN "application/octet-stream"
    ELSE guess_type(name)

\* The deployments of the non-deleted assignments of the device whose range
\* contains the date.
get_deployment_by_device_and_date(device_id, date) ==
    {deploymentdevice[i].deployment_id : i \in
        {j \in DepDevIds :
            /\ deploymentdevice[j].device_id = device_id
            /\ deploymentdevice[j].deleted = FALSE
            /\ DateLeq(deploymentdevice[j].start_date, date)
            /\ DateLeq(date, deploymentdevice[j].end_date)}}

\* A lookup that takes any assignment the device ever had, whatever its
\* dates and its deleted flag.
get_metadata_any_assignment(device_id, date) ==
    IF device_id \notin DOMAIN device \/ device[device_id].deleted
    THEN {[status |-> "InternalError"]}
    ELSE {[status |-> "OK",
           organisation |-> network[deployment[d].network_id].organisation_name,
           network |-> network[deployment[d].network_id],
           deployment |-> [id |-> d, name |-> deployment[d].name],
           device |-> device[device_id],
           devicetype |-> devicetype[device[device_id].devicetype_name]] :
          d \in {deploymentdevice[j].deployment_id : j \in
                   {k \in DepDevIds :
                      deploymentdevice[k].device_id = device_id}}}

\* A lookup that trusts the device row: the deployment is the one the row
\* names as current, and the assignment table is asked only when it names
\* none.
get_metadata_current_deployment(device_id, date) ==
    IF device_id \notin DOMAIN device \/ device[device_id].deleted
    THEN {[status |-> "InternalError"]}
    ELSE LET found ==
                 IF device[device_id].current_deployment_id # 0
                 THEN {device[device_id].current_deployment_id}
                 ELSE get_deployment_by_device_and_date(device_id, date) IN
         IF found = {}
         THEN {[status |-> "NotFound"]}
         ELSE {[status |-> "OK",
                organisation |-> network[deployment[d].network_id].organisation_name,
                network |-> network[deployment[d].network_id],
                deployment |-> [id |-> d, name |-> deployment[d].name],
                device |-> device[device_id],
                devicetype |-> devicetype[device[device_id].devicetype_name]] :
               d \in found}

\* The outcomes of get_metadata.  The device query filters on deleted and
\* its first() is unpacked into two names: with no row the unpacking of
\* None raises TypeError before the "if not device" test.
get_metadata(device_id, date) ==
    IF device_id \notin DOMAIN device \/ device[device_id].deleted
    THEN {[status |-> "InternalError"]}
    ELSE IF get_deployment_by_device_and_date(device_id, date) = {}
    THEN {[status |-> "NotFound"]}
    ELSE {[status |-> "OK",
           organisation |-> network[deployment[d].network_id].organisation_name,
           network |-> network[deployment[d].network_id],
           deployment |-> [id |-> d, name |-> deployment[d].name],
           device |-> device[device_id],
           devicetype |-> devicetype[device[device_id].devicetype_name]] :
          d \in get_deployment_by_device_and_date(device_id, date)}

get_prefix(metadata, date) ==
    metadata.organisation \o Slash \o metadata.network.country_code \o Slash
    \o metadata.network.name \o Slash \o metadata.deployment.name \o Slash
    \o metadata.device.devicetype_name \o Slash \o Str(date.year) \o Slash
    \o Pad2(date.month) \o Slash \o Pad2(date.day)

\* f"{prefix}/{file.filename}"
Key(prefix, filename) == prefix \o Slash \o filename

\* A rule that takes midday itself for the night before.
session_date_until_noon(night_session, files, date) ==
    IF night_session /\ ~StrLess(Noon, Stem(files[1]))
    THEN PrevDay(date)
    ELSE date

\* The session date upload_files passes to create_inference.
session_date(night_session, files, date) ==
    IF night_session /\ StrLess(Stem(files[1]), Noon)
    THEN PrevDay(date)
    ELSE date

\* A gather that waits for every task and ignores the exceptions.
GatherAllSettled(task) == \A i \in 1..Len(task) : task[i] # "pending"

\* await asyncio.gather(*tasks) returns: every task returned.
GatherAllDone(task) == \A i \in 1..Len(task) : task[i] = "done"

\* await asyncio.gather(*tasks) raises: the exception of a task.
GatherFailed(task) == \E i \in 1..Len(task) : task[i] = "failed"

\* The keys the request in progress has put into the store.
UploadPut ==
    IF upload.pc = "idle" THEN {}
    ELSE {Key(upload.prefix, upload.files[i]) :
            i \in {j \in 1..Len(upload.task) : upload.task[j] = "done"}}

\* No transfer task of the last request is still running.
Settled ==
    upload.pc = "idle"
    \/ (upload.pc = "done" /\ \A i \in 1..Len(upload.task) : upload.task[i] # "pending")

\* The upload requests the model draws from: every batch for device "d1" on
\* the third day, one file for it on the second day (another deployment),
\* and one file for each device that is not deployed, deleted or missing.
UploadRequests ==
    [device_id : {"d1"}, date : {NextDay(NextDay(FirstDay))}, files : Batches]
    \cup [device_id : {"d1"}, date : {NextDay(FirstDay)}, files : {<<F053000>>}]
    \cup [device_id : {"d2", "d3", "d9"}, date : {NextDay(NextDay(FirstDay))},
          files : {<<F053000>>}]

\* upload_files up to the first await: the metadata is resolved and the
\* prefix built, then one transfer task per file is created.
upload_files_begin(req) ==
    \E md \in get_metadata(req.device_id, req.date) :
       /\ upload' =
            IF md.status = "OK"
            THEN [pc |-> "gather", device_id |-> req.device_id,
                  date |-> req.date, files |-> req.files,
                  prefix |-> get_prefix(md, req.date),
                  deployment_id |-> md.deployment.id,
                  night_session |-> md.devicetype.night_session,
                  task |-> [i \in 1..Len(req.files) |-> "pending"],
                  response |-> "none", ledger |-> "not called"]
            ELSE [pc |-> "done", device_id |-> req.device_id,
                  date |-> req.date, files |-> req.files,
                  prefix |-> <<>>,
                  deployment_id |-> 0, night_session |-> FALSE,
                  task |-> [i \in 1..Len(req.files) |-> "not created"],
                  response |-> md.status, ledger |-> "not called"]
       /\ last' = IF md.status = "OK" THEN last
                  ELSE Done("upload_files", md.status)

UploadBegin ==
    /\ Settled
    /\ \E req \in UploadRequests : upload_files_begin(req)
    /\ UNCHANGED <<refs, deploymentdevice, inference, store, query, inflight>>

\* upload_file: the transfer of one file completes and the object is stored
\* under prefix/filename with its media type.  The tasks of a batch whose
\* gather has raised are not cancelled and may still complete.
TransferSucceeds ==
    /\ upload.pc \in {"gather", "done"}
    /\ \E i \in 1..Len(upload.task) :
         /\ upload.task[i] = "pending"
         /\ upload' = [upload EXCEPT !.task[i] = "done"]
         /\ store' = [k \in DOMAIN store \cup {Key(upload.prefix, upload.files[i])} |->
                        IF k = Key(upload.prefix, upload.files[i])
                        THEN media_type(upload.files[i])
                        ELSE store[k]]
    /\ UNCHANGED <<refs, deploymentdevice, inference, last, query, inflight>>

\* upload_file: the store call raises, the task raises HTTPException 400.
TransferFails ==
    /\ upload.pc \in {"gather", "done"}
    /\ \E i \in 1..Len(upload.task) :
         /\ upload.task[i] = "pending"
         /\ upload' = [upload EXCEPT !.task[i] = "failed"]
    /\ UNCHANGED <<refs, deploymentdevice, inference, store, last, query, inflight>>

\* The gather raises the exception of a failed task and upload_files answers
\* 400, whatever the other tasks have done so far.
GatherRaises ==
    /\ upload.pc = "gather"
    /\ GatherFailed(upload.task)
    /\ upload' = [upload EXCEPT !.pc = "done", !.response = "BadRequest"]
    /\ last' = Done("upload_files", "BadRequest")
    /\ UNCHANGED <<refs, deploymentdevice, inference, store, query, inflight>>

\* The gather returns; the session date is computed from the first file name
\* and create_inference is called, outside any try block.
GatherReturns ==
    /\ upload.pc = "gather"
    /\ GatherAllDone(upload.task)
    /\ LET sd == session_date(upload.night_session, upload.files, upload.date) IN
       /\ LedgerRoom(upload.device_id, sd)
       /\ \E out \in create_inference(upload.device_id, upload.deployment_id, sd) :
            /\ inference' = out.rows
            /\ upload' = [upload EXCEPT
                             !.pc = "done",
                             !.response = IF out.raised THEN "InternalError" ELSE "OK",
                             !.ledger = out.effect]
            /\ last' = Done("upload_files",
                            IF out.raised THEN "InternalError" ELSE "OK")
    /\ UNCHANGED <<refs, deploymentdevice, store, query, inflight>>

\* Device "d1" is assigned to deployment 1 on the first two days and to
\* deployment 2 on the third; device "d2" has one assignment, deleted.
UploadAssignments ==
    <<[device_id |-> "d1", deployment_id |-> 1, start_date |-> FirstDay,
       end_date |-> NextDay(FirstDay), deleted |-> FALSE],
      [device_id |-> "d1", deployment_id |-> 2,
       start_date |-> NextDay(NextDay(FirstDay)),
       end_date |-> NextDay(NextDay(FirstDay)), deleted |-> FALSE],
      [device_id |-> "d2", deployment_id |-> 1, start_date |-> FirstDay,
       end_date |-> NextDay(NextDay(FirstDay)), deleted |-> TRUE]>>

InitUpload ==
    /\ organisation = InitOrganisation
    /\ country = InitCountry
    /\ network = InitNetwork
    /\ devicetype = InitDeviceType
    /\ device = InitDevice
    /\ deployment = InitDeployment
    /\ deploymentdevice = UploadAssignments
    /\ inference = <<>>
    /\ store = <<>>
    /\ last = Done("none", "OK")
    /\ inflight = NoRequests
    /\ upload = NoUpload
    /\ query = NoQuery

NextUpload ==
    \/ UploadBegin
    \/ TransferSucceeds
    \/ TransferFails
    \/ GatherRaises
    \/ GatherReturns

SpecUpload == InitUpload /\ [][NextUpload]_vars

\* The same request again: the client sends the batch it sent before.
UploadAgain ==
    /\ Settled
    /\ \E req \in UploadRequests :
         /\ upload.pc # "idle" =>
               /\ req.device_id = upload.device_id
               /\ req.date = upload.date
               /\ req.files = upload.files
         /\ upload_files_begin(req)
    /\ UNCHANGED <<refs, deploymentdevice, inference, store, query, inflight>>

NextResubmit ==
    \/ UploadAgain
    \/ TransferSucceeds
    \/ TransferFails
    \/ GatherRaises
    \/ GatherReturns

SpecResubmit == InitUpload /\ [][NextResubmit]_vars

(***************************************************************************)
(* Uploads against device rows that name any current deployment.           *)
(***************************************************************************)
\* The device tables that differ from InitDevice only in the current
\* deployment of the two devices in use: none (0) or a deployment in use.
CurrentDevices ==
    {[d \in DOMAIN InitDevice |->
        IF d = "d1" THEN [InitDevice[d] EXCEPT !.current_deployment_id = c1]
        ELSE IF d = "d2" THEN [InitDevice[d] EXCEPT !.current_deployment_id = c2]
        ELSE InitDevice[d]] : c1 \in {0, 1, 2}, c2 \in {0, 1, 2}}

InitCurrent ==
    /\ organisation = InitOrganisation
    /\ country = InitCountry
    /\ network = InitNetwork
    /\ devicetype = InitDeviceType
    /\ device \in CurrentDevices
    /\ deployment = InitDeployment
    /\ deploymentdevice = UploadAssignments
    /\ inference = <<>>
    /\ store = <<>>
    /\ last = Done("none", "OK")
    /\ inflight = NoRequests
    /\ upload = NoUpload
    /\ query = NoQuery

SpecCurrent == InitCurrent /\ [][NextUpload]_vars

(***************************************************************************)
(* The end of an upload whose transfers are done, for every time of day.   *)
(***************************************************************************)
\* File names of the form hhmmss.jpg.
StampName(h, m, sec) == Pad2(h) \o Pad2(m) \o Pad2(sec) \o <<46>> \o JPG

\* The times of day the model draws from: every hour, with the first, a
\* middle and the last minute and the first and last second.
StampNames ==
    {StampName(h, m, sec) : h \in 0..23, m \in {0, 30, 59}, sec \in {0, 59}}

\* Device "d1" (a night session type) and device "d2" (a day type) are both
\* deployed on every day.
SessionAssignments ==
    <<[device_id |-> "d1", deployment_id |-> 1, start_date |-> FirstDay,
       end_date |-> NextDay(NextDay(FirstDay)), deleted |-> FALSE],
      [device_id |-> "d2", deployment_id |-> 2, start_date |-> FirstDay,
       end_date |-> NextDay(NextDay(FirstDay)), deleted |-> FALSE]>>

\* The request of upload_files after its only file has been transferred.
Transferred(device_id, date, name) ==
    {[pc |-> "gather", device_id |-> device_id, date |-> date,
      files |-> <<name>>, prefix |-> get_prefix(md, date),
      deployment_id |-> md.deployment.id,
      night_session |-> md.devicetype.night_session,
      task |-> <<"done">>, response |-> "none", ledger |-> "not called"] :
     md \in {m \in get_metadata(device_id, date) : m.status = "OK"}}

InitSession ==
    /\ organisation = InitOrganisation
    /\ country = InitCountry
    /\ network = InitNetwork
    /\ devicetype = InitDeviceType
    /\ device = InitDevice
    /\ deployment = InitDeployment
    /\ deploymentdevice = SessionAssignments
    /\ inference = <<>>
    /\ last = Done("none", "OK")
    /\ inflight = NoRequests
    /\ query = NoQuery
    /\ upload \in UNION {Transferred(d, t, n) :
                            d \in {"d1", "d2"}, t \in Dates, n \in StampNames}
    /\ store = [k \in {Key(upload.prefix, upload.files[1])} |->
                   media_type(upload.files[1])]

NextSession == GatherReturns

SpecSession == InitSession /\ [][NextSession]_vars

(***************************************************************************)
(* The key validator and the file listing.                                 *)
(***************************************************************************)
organisation_exists(name) ==
    IF upper(name) \in DOMAIN organisation
    THEN (IF organisation[upper(name)].deleted THEN "Conflict" ELSE "True")
    ELSE "False"

country_exists(code) ==
    IF upper(code) \in DOMAIN country
    THEN (IF country[upper(code)].deleted THEN "Conflict" ELSE "True")
    ELSE "False"

devicetype_exists(name) ==
    IF lower(name) \in DOMAIN devicetype
    THEN (IF devicetype[lower(name)].deleted THEN "Conflict" ELSE "True")
    ELSE "False"

\* The ids of the networks the query of get_network_by_name selects;
\* check_valid_network keeps the name unique for an organisation and country.
NetworksNamed(name, organisation_name, country_code) ==
    {i \in DOMAIN network :
        /\ network[i].name = name
        /\ network[i].organisation_name = upper(organisation_name)
        /\ network[i].country_code = upper(country_code)}

\* The outcome of get_network_by_name: the 409 it raises for a deleted
\* network, None, or the network row (its id).
get_network_by_name(name, organisation_name, country_code) ==
    LET found == NetworksNamed(name, organisation_name, country_code) IN
    IF found = {} THEN [kind |-> "None", id |-> 0]
    ELSE IF network[CHOOSE i \in found : TRUE].deleted
         THEN [kind |-> "Conflict", id |-> 0]
    ELSE [kind |-> "Network", id |-> CHOOSE i \in found : TRUE]

network_name_exists(name, organisation_name, country_code) ==
    LET net == get_network_by_name(name, organisation_name, country_code) IN
    IF net.kind = "Conflict" THEN "Conflict"
    ELSE IF net.kind = "None" THEN "False" ELSE "True"

\* deployment_name_exists without a device type: true when a deployment of
\* that name in the network is not deleted, Conflict when all are deleted.
deployment_name_exists(name, network_id) ==
    LET found == {i \in DOMAIN deployment :
                    /\ deployment[i].name = name
                    /\ deployment[i].network_id = network_id} IN
    IF \E i \in found : ~deployment[i].deleted THEN "True"
    ELSE IF found # {} THEN "Conflict"
    ELSE "False"

\* date.today()
Today == Date(2026, 11, 1)

Prefix(prefix) == [status |-> "OK", segment |-> "none", prefix |-> prefix]

Raise(status, segment) == [status |-> status, segment |-> segment, prefix |-> <<>>]

\* An absent string segment (None or "") is <<>>, an absent number (None or
\* 0) is 0: "if segment:" takes both for absent.
validate_day(prefix, year, month, day) ==
    IF day = 0 THEN Prefix(prefix)
    ELSE IF ~IsValidDate(year, month, day) THEN Raise("BadRequest", "day")
    ELSE Prefix(prefix \o Slash \o Str(day))

\* A month step that goes on to the day when the month is absent.
validate_month_or_day(prefix, year, month, day) ==
    IF month = 0 THEN validate_day(prefix, year, month, day)
    ELSE IF month < 1 \/ month > 12 THEN Raise("BadRequest", "month")
    ELSE validate_day(prefix \o Slash \o Str(month), year, month, day)

validate_month(prefix, year, month, day) ==
    IF month = 0 THEN Prefix(prefix)
    ELSE IF month < 1 \/ month > 12 THEN Raise("BadRequest", "month")
    ELSE validate_day(prefix \o Slash \o Str(month), year, month, day)

validate_year(prefix, year, month, day) ==
    IF year = 0 THEN Prefix(prefix)
    ELSE IF year < 2000 \/ year > Today.year THEN Raise("BadRequest", "year")
    ELSE validate_month(prefix \o Slash \o Str(year), year, month, day)

validate_devicetype(prefix, dt, year, month, day) ==
    IF dt = <<>> THEN Prefix(prefix)
    ELSE IF devicetype_exists(dt) = "Conflict" THEN Raise("Conflict", "devicetype")
    ELSE IF devicetype_exists(dt) = "False" THEN Raise("NotFound", "devicetype")
    ELSE validate_year(prefix \o Slash \o lower(dt), year, month, day)

validate_deployment(prefix, org, ctry, net, dep, dt, year, month, day) ==
    IF dep = <<>> THEN Prefix(prefix)
    ELSE LET found == deployment_name_exists(
                          dep, get_network_by_name(net, org, ctry).id) IN
         IF found = "Conflict" THEN Raise("Conflict", "deployment")
         ELSE IF found = "False" THEN Raise("NotFound", "deployment")
         ELSE validate_devicetype(prefix \o Slash \o dep, dt, year, month, day)

validate_network(prefix, org, ctry, net, dep, dt, year, month, day) ==
    IF net = <<>> THEN Prefix(prefix)
    ELSE IF network_name_exists(net, org, ctry) = "Conflict"
         THEN Raise("Conflict", "network")
    ELSE IF network_name_exists(net, org, ctry) = "False"
         THEN Raise("NotFound", "network")
    ELSE validate_deployment(prefix \o Slash \o net, org, ctry, net, dep, dt,
                             year, month, day)

\* A country step that appends the code without looking it up.
validate_country_unchecked(prefix, org, ctry, net, dep, dt, year, month, day) ==
    IF ctry = <<>> THEN Prefix(prefix)
    ELSE validate_network(prefix \o Slash \o upper(ctry), org, ctry, net, dep,
                          dt, year, month, day)

validate_country(prefix, org, ctry, net, dep, dt, year, month, day) ==
    IF ctry = <<>> THEN Prefix(prefix)
    ELSE IF country_exists(ctry) = "Conflict" THEN Raise("Conflict", "country")
    ELSE IF country_exists(ctry) = "False" THEN Raise("NotFound", "country")
    ELSE validate_network(prefix \o Slash \o upper(ctry), org, ctry, net, dep,
                          dt, year, month, day)

validate_prefix(org, ctry, net, dep, dt, year, month, day) ==
    IF org = <<>> THEN Prefix(<<>>)
    ELSE IF organisation_exists(org) = "Conflict"
         THEN Raise("Conflict", "organisation")
    ELSE IF organisation_exists(org) = "False"
         THEN Raise("NotFound", "organisation")
    ELSE validate_country(upper(org), org, ctry, net, dep, dt, year, month, day)

\* validate_prefix applied to a record of segments.
validate_segments(s) ==
    validate_prefix(s.organisation, s.country, s.network, s.deployment,
                    s.devicetype, s.year, s.month, s.day)

\* The key starts with the prefix (list_objects_v2 with Prefix=prefix).
StartsWith(key, prefix) ==
    /\ Len(prefix) <= Len(key)
    /\ SubSeq(key, 1, Len(prefix)) = prefix

\* Names the tables do not hold: "abc", "gb", "Moth", "XYZ", "FR", "n9", "s9".
ABC_LOWER == <<97, 98, 99>>
GB_LOWER == <<103, 98>>
MOTH_TITLE == <<77, 111, 116, 104>>
XYZ == <<88, 89, 90>>
FR == <<70, 82>>
N9 == <<110, 57>>
S9 == <<115, 57>>

\* The numbers the listing requests draw from.  A parameter the request
\* leaves out is None, which "if year:" takes for absent as it takes 0:
\* the record holds 0 for it and names it in none.
QueryNumbers ==
    {n \in [year : {0, 1999, 2024, 2027},
            month : {0 - 1, 0, 2, 12, 13},
            day : {0, 9, 29, 30, 32},
            none : SUBSET {"year", "month", "day"}] :
        /\ "year" \in n.none => n.year = 0
        /\ "month" \in n.none => n.month = 0
        /\ "day" \in n.none => n.day = 0}

\* The segments the listing requests of the model draw from.
QuerySegments ==
    {[organisation |-> o, country |-> c, network |-> n, deployment |-> d,
      devicetype |-> t, year |-> x.year, month |-> x.month, day |-> x.day,
      none |-> x.none] :
        o \in {<<>>, ABC, ABC_LOWER, OLD, XYZ},
        c \in {<<>>, GB, GB_LOWER, FR},
        n \in {<<>>, N1, N9},
        d \in {<<>>, S1, S3, S9},
        t \in {<<>>, MOTH, MOTH_TITLE},
        x \in QueryNumbers}

\* The segments of the day a device uploads on, taken from its metadata.
SegmentsOf(metadata, date) ==
    [organisation |-> metadata.organisation,
     country |-> metadata.network.country_code,
     network |-> metadata.network.name,
     deployment |-> metadata.deployment.name,
     devicetype |-> metadata.device.devicetype_name,
     year |-> date.year, month |-> date.month, day |-> date.day,
     none |-> {}]

\* get_files: the prefix is validated, then the store is listed under it;
\* a listing the store fails is answered 400.
GetFiles ==
    /\ query.pc = "call"
    /\ query.op = "get_files"
    /\ LET r == validate_segments(query.segments) IN
       \E listed \in BOOLEAN :
         /\ r.status # "OK" => listed
         /\ query' = [pc |-> "done", op |-> "get_files",
                      segments |-> query.segments,
                      status |-> IF listed THEN r.status ELSE "BadRequest",
                      segment |-> r.segment,
                      prefix |-> r.prefix,
                      files |-> IF r.status = "OK" /\ listed
                                THEN {k \in DOMAIN store :
                                        StartsWith(k, r.prefix)}
                                ELSE {}]
    /\ UNCHANGED <<refs, deploymentdevice, inference, store, last, upload, inflight>>

\* upload_files up to the prefix: get_metadata, then get_prefix.
UploadPrefix ==
    /\ query.pc = "call"
    /\ query.op = "upload_files"
    /\ \E md \in get_metadata(query.device_id, query.date) :
         query' = IF md.status = "OK"
                  THEN [pc |-> "done", op |-> "upload_files",
                        segments |-> SegmentsOf(md, query.date),
                        status |-> "OK",
                        prefix |-> get_prefix(md, query.date)]
                  ELSE [pc |-> "done", op |-> "upload_files",
                        segments |-> <<>>, status |-> md.status,
                        prefix |-> <<>>]
    /\ UNCHANGED <<refs, deploymentdevice, inference, store, last, upload, inflight>>

\* The store after device "d1" has uploaded "053000.jpg" on each day.
UploadedStore ==
    LET keys == UNION {{Key(get_prefix(md, date), F053000) :
                          md \in {m \in get_metadata("d1", date) :
                                     m.status = "OK"}} :
                       date \in Dates} IN
    [k \in keys |-> media_type(F053000)]

InitPrefix ==
    /\ organisation = InitOrganisation
    /\ country = InitCountry
    /\ network = InitNetwork
    /\ devicetype = InitDeviceType
    /\ device = InitDevice
    /\ deployment = InitDeployment
    /\ deploymentdevice = UploadAssignments
    /\ inference = <<>>
    /\ store = UploadedStore
    /\ last = Done("none", "OK")
    /\ inflight = NoRequests
    /\ upload = NoUpload
    /\ query \in {[pc |-> "call", op |-> "get_files", segments |-> s] :
                      s \in QuerySegments}
                 \cup {[pc |-> "call", op |-> "upload_files",
                        device_id |-> d, date |-> t] :
                      d \in DeviceIds, t \in Dates}

NextPrefix ==
    \/ GetFiles
    \/ UploadPrefix

SpecPrefix == InitPrefix /\ [][NextPrefix]_vars

(***************************************************************************)
(* The presigned URL and the file by its path.                             *)
(***************************************************************************)
\* generate_presigned_url calls get_prefix(db, id, date), a function of the
\* two parameters (metadata, date): the call raises TypeError on every
\* request, before the store client is used.
get_prefix_call == "InternalError"

generate_presigned_url(id, date, filename) ==
    [pc |-> "done", op |-> "generate_presigned_url",
     device_id |-> id, date |-> date, filename |-> filename,
     status |-> get_prefix_call, touched |-> FALSE, url |-> <<>>]

\* The outcomes of get_file: the prefix is validated, then the object is
\* asked of the store, which returns it, raises NoSuchKey or fails.
get_file(segments, filename) ==
    LET r == validate_segments(segments)
        key == Key(r.prefix, filename)
        answer(status, touched, type) ==
            [pc |-> "done", op |-> "get_file", segments |-> segments,
             filename |-> filename, status |-> status, segment |-> r.segment,
             touched |-> touched, key |-> key, media_type |-> type] IN
    IF r.status # "OK" THEN {answer(r.status, FALSE, "none")}
    ELSE {answer("BadRequest", TRUE, "none")}
         \cup (IF key \in DOMAIN store
               THEN {answer("OK", TRUE, store[key])}
               ELSE {answer("NotFound", TRUE, "none")})

GeneratePresignedUrl ==
    /\ query.pc = "call"
    /\ query.op = "generate_presigned_url"
    /\ query' = generate_presigned_url(query.device_id, query.date,
                                       query.filename)
    /\ UNCHANGED <<refs, deploymentdevice, inference, store, last, upload, inflight>>

GetFile ==
    /\ query.pc = "call"
    /\ query.op = "get_file"
    /\ query' \in get_file(query.segments, query.filename)
    /\ UNCHANGED <<refs, deploymentdevice, inference, store, last, upload, inflight>>

\* The days of the file requests: the first day, a day in December on which
\* device "d1" is still deployed, and a day after its deployment.
Christmas == Date(2024, 12, 25)
NewYear == Date(2025, 1, 1)
FileDates == {FirstDay, Christmas, NewYear}

\* Device "d1" is assigned to deployment 1 from the first day to Christmas.
FileAssignments ==
    <<[device_id |-> "d1", deployment_id |-> 1, start_date |-> FirstDay,
       end_date |-> Christmas, deleted |-> FALSE]>>

\* The store after device "d1" has uploaded "053000.jpg" on each day it is
\* deployed.
FileStore ==
    LET keys == UNION {{Key(get_prefix(md, date), F053000) :
                          md \in {m \in get_metadata("d1", date) :
                                     m.status = "OK"}} :
                       date \in FileDates} IN
    [k \in keys |-> media_type(F053000)]

\* The path segments the file requests draw from: all nine are required.
FileSegments ==
    {[organisation |-> o, country |-> c, network |-> n, deployment |-> d,
      devicetype |-> t, year |-> x.year, month |-> x.month, day |-> x.day,
      none |-> {}] :
        o \in {ABC, ABC_LOWER, OLD, XYZ},
        c \in {GB, FR},
        n \in {N1, N9},
        d \in {S1, S3, S9},
        t \in {MOTH, MOTH_TITLE},
        x \in FileDates \cup {[year |-> 2024, month |-> 13, day |-> 1]}}

InitFile ==
    /\ organisation = InitOrganisation
    /\ country = InitCountry
    /\ network = InitNetwork
    /\ devicetype = InitDeviceType
    /\ device = InitDevice
    /\ deployment = InitDeployment
    /\ deploymentdevice = FileAssignments
    /\ inference = <<>>
    /\ store = FileStore
    /\ last = Done("none", "OK")
    /\ inflight = NoRequests
    /\ upload = NoUpload
    /\ query \in {[pc |-> "call", op |-> "get_file", segments |-> s,
                   filename |-> f] :
                      s \in FileSegments, f \in {F053000, FX}}
                 \cup {[pc |-> "call", op |-> "generate_presigned_url",
                        device_id |-> d, date |-> t, filename |-> f] :
                      d \in DeviceIds, t \in FileDates, f \in {F053000, FX}}

NextFile ==
    \/ GeneratePresignedUrl
    \/ GetFile

SpecFile == InitFile /\ [][NextFile]_vars

(***************************************************************************)
(* The legacy upload of main.py: the files of a batch go to the transfer   *)
(* manager in chunks.                                                      *)
(***************************************************************************)
\* The files of a legacy batch and the chunk sizes the model draws from.
MaxLegacyFiles == 4
MaxChunk == 3

\* list(islice(iterator, size)): the next size items, or those that are left.
islice(s, size) == SubSeq(s, 1, IF size < Len(s) THEN size ELSE Len(s))

\* chunks: "for first in iterator" takes an item from the iterator, and the
\* chunk that is yielded is the islice of what follows it.
RECURSIVE chunks(_, _)
chunks(iterable, size) ==
    IF iterable = <<>> THEN <<>>
    ELSE LET rest == Tail(iterable)
             chunk == islice(rest, size) IN
         <<chunk>> \o chunks(SubSeq(rest, Len(chunk) + 1, Len(rest)), size)

\* upload_chunk for each chunk in turn: the files handed to s3t.upload.
RECURSIVE upload_chunk(_)
upload_chunk(pieces) ==
    IF pieces = <<>> THEN <<>>
    ELSE pieces[1] \o upload_chunk(Tail(pieces))

\* key = deployment + "/" + data_type
LegacyKey == S1 \o Slash \o MOTH

\* upload_files: every chunk is submitted to the executor, every file of a
\* chunk is handed to the transfer manager, whose failures upload_file_s3
\* swallows, and the function returns True.
upload_files(files, chunk_size) ==
    LET pieces == chunks(files, chunk_size)
        handed == upload_chunk(pieces) IN
    \E stored \in SUBSET {handed[i] : i \in 1..Len(handed)} :
       /\ upload' = [pc |-> "done", op |-> "upload_files", files |-> files,
                     chunk_size |-> chunk_size, chunks |-> pieces,
                     handed |-> handed, response |-> TRUE]
       /\ store' = [k \in DOMAIN store \cup {Key(LegacyKey, f) : f \in stored} |->
                       IF k \in DOMAIN store THEN store[k]
                       ELSE "binary/octet-stream"]

LegacyUpload ==
    /\ upload.pc = "call"
    /\ upload_files(upload.files, upload.chunk_size)
    /\ UNCHANGED <<refs, deploymentdevice, inference, last, query, inflight>>

\* The batches of the legacy upload: up to MaxLegacyFiles file names.
LegacyBatches == UNION {[1..n -> FileNames] : n \in 0..MaxLegacyFiles}

InitLegacy ==
    /\ organisation = InitOrganisation
    /\ country = InitCountry
    /\ network = InitNetwork
    /\ devicetype = InitDeviceType
    /\ device = InitDevice
    /\ deployment = InitDeployment
    /\ deploymentdevice = <<>>
    /\ inference = <<>>
    /\ store = <<>>
    /\ last = Done("none", "OK")
    /\ inflight = NoRequests
    /\ query = NoQuery
    /\ upload \in [pc : {"call"}, op : {"upload_files"}, files : LegacyBatches,
                   chunk_size : 1..MaxChunk]

NextLegacy == LegacyUpload

SpecLegacy == InitLegacy /\ [][NextLegacy]_vars

(***************************************************************************)
(* Devices and deployments: create, update, delete and undelete.           *)
(***************************************************************************)
network_exists(id) ==
    IF id \in DOMAIN network
    THEN (IF network[id].deleted THEN "Conflict" ELSE "True")
    ELSE "False"

\* "OK" when a device with this id and this deleted flag exists.
get_device_by_id(id, deleted) ==
    IF id \in DOMAIN device /\ device[id].deleted = deleted
    THEN "OK" ELSE "NotFound"

\* A non-deleted assignment names the device.
device_used(id) ==
    \E i \in DepDevIds :
        deploymentdevice[i].device_id = id /\ deploymentdevice[i].deleted = FALSE

\* "OK" when the function returns, else the error it raises.  The current
\* deployment is optional (0 stands for None).
check_valid_device(body) ==
    IF body.current_deployment_id # 0
       /\ deployment_exists(body.current_deployment_id) = "Conflict"
    THEN "Conflict"
    ELSE IF body.current_deployment_id # 0
            /\ deployment_exists(body.current_deployment_id) = "False"
    THEN "NotFound"
    ELSE IF devicetype_exists(body.devicetype_name) = "Conflict" THEN "Conflict"
    ELSE IF devicetype_exists(body.devicetype_name) = "False" THEN "NotFound"
    ELSE "OK"

create_device(body) ==
    LET status == IF device_exists(body.id) # "False" THEN "Conflict"
                  ELSE check_valid_device(body) IN
    /\ device' =
         IF status = "OK"
         THEN [i \in DOMAIN device \cup {body.id} |->
                  IF i = body.id
                  THEN [devicetype_name |-> lower(body.devicetype_name),
                        current_deployment_id |-> body.current_deployment_id,
                        deleted |-> FALSE]
                  ELSE device[i]]
         ELSE device
    /\ last' = Done("create_device", status)

update_device(id, body) ==
    LET valid == check_valid_device(body)
        status == IF valid # "OK" THEN valid ELSE get_device_by_id(id, FALSE) IN
    /\ device' =
         IF status = "OK"
         THEN [device EXCEPT
                  ![id] = [devicetype_name |-> lower(body.devicetype_name),
                           current_deployment_id |-> body.current_deployment_id,
                           deleted |-> @.deleted]]
         ELSE device
    /\ last' = Done("update_device", status)

\* A delete that does not ask whether the device is in use.
delete_device_unchecked(id) ==
    LET status == get_device_by_id(id, FALSE) IN
    /\ device' = IF status = "OK" THEN [device EXCEPT ![id].deleted = TRUE]
                 ELSE device
    /\ last' = Done("delete_device", status)

delete_device(id) ==
    LET status == IF device_used(id) THEN "Conflict"
                  ELSE get_device_by_id(id, FALSE) IN
    /\ device' = IF status = "OK" THEN [device EXCEPT ![id].deleted = TRUE]
                 ELSE device
    /\ last' = Done("delete_device", status)

undelete_device(name) ==
    LET found == get_device_by_id(name, TRUE)
        status == IF found # "OK" THEN found
                  ELSE check_valid_device(device[name]) IN
    /\ device' = IF status = "OK" THEN [device EXCEPT ![name].deleted = FALSE]
                 ELSE device
    /\ last' = Done("undelete_device", status)

\* "OK" when a deployment with this id and this deleted flag exists.
get_deployment_by_id(id, deleted) ==
    IF id \in DOMAIN deployment /\ deployment[id].deleted = deleted
    THEN "OK" ELSE "NotFound"

\* A non-deleted device names the deployment as current, or a non-deleted
\* assignment names it.
deployment_used(id) ==
    \/ \E d \in DOMAIN device :
          device[d].current_deployment_id = id /\ device[d].deleted = FALSE
    \/ \E i \in DepDevIds :
          deploymentdevice[i].deployment_id = id
          /\ deploymentdevice[i].deleted = FALSE

\* deployment_name_exists with a device type: the outcomes of the lookup,
\* one for each row first() may return.
deployment_name_exists_for(name, network_id, devicetype_name) ==
    LET found == {i \in DOMAIN deployment :
                     /\ deployment[i].name = name
                     /\ deployment[i].network_id = network_id
                     /\ deployment[i].devicetype_name = lower(devicetype_name)} IN
    IF found = {} THEN {"False"}
    ELSE {IF deployment[i].deleted THEN "Conflict" ELSE "True" : i \in found}

\* The outcomes of check_valid_deployment: "OK" when it returns, else the
\* error it raises.  id 0 stands for None.
check_valid_deployment(body, id) ==
    IF network_exists(body.network_id) = "Conflict" THEN {"Conflict"}
    ELSE IF network_exists(body.network_id) = "False" THEN {"NotFound"}
    ELSE IF devicetype_exists(body.devicetype_name) = "Conflict" THEN {"Conflict"}
    ELSE IF devicetype_exists(body.devicetype_name) = "False" THEN {"NotFound"}
    ELSE IF id # 0 /\ get_deployment_by_id(id, FALSE) # "OK" THEN {"NotFound"}
    ELSE IF id # 0
            /\ deployment[id].network_id = body.network_id
            /\ deployment[id].devicetype_name = body.devicetype_name
            /\ deployment[id].name = body.name
    THEN {"OK"}
    ELSE {IF e = "False" THEN "OK" ELSE "Conflict" :
            e \in deployment_name_exists_for(body.name, body.network_id,
                                             body.devicetype_name)}

\* The rows a deployment table may hold: those it starts with and one more.
MaxDeployments == Cardinality(DOMAIN InitDeployment) + 1

\* The id the database gives the next deployment.
NextDeploymentId == Cardinality(DOMAIN deployment) + 1

create_deployment(body) ==
    \E status \in check_valid_deployment(body, 0) :
       /\ status = "OK" => Cardinality(DOMAIN deployment) < MaxDeployments
       /\ deployment' =
            IF status = "OK"
            THEN [i \in DOMAIN deployment \cup {NextDeploymentId} |->
                     IF i = NextDeploymentId
                     THEN [network_id |-> body.network_id,
                           devicetype_name |-> lower(body.devicetype_name),
                           name |-> body.name,
                           deleted |-> FALSE]
                     ELSE deployment[i]]
            ELSE deployment
       /\ last' = Done("create_deployment", status)

update_deployment(id, body) ==
    \E valid \in check_valid_deployment(body, id) :
       LET status == IF valid # "OK" THEN valid
                     ELSE get_deployment_by_id(id, FALSE) IN
       /\ deployment' =
            IF status = "OK"
            THEN [deployment EXCEPT
                     ![id] = [network_id |-> body.network_id,
                              devicetype_name |-> lower(body.devicetype_name),
                              name |-> body.name,
                              deleted |-> @.deleted]]
            ELSE deployment
       /\ last' = Done("update_deployment", status)

delete_deployment(id) ==
    LET status == IF deployment_used(id) THEN "Conflict"
                  ELSE get_deployment_by_id(id, FALSE) IN
    /\ deployment' =
         IF status = "OK" THEN [deployment EXCEPT ![id].deleted = TRUE]
         ELSE deployment
    /\ last' = Done("delete_deployment", status)

\* check_valid_deployment is called without the id, so the name lookup
\* finds the deleted row itself.
undelete_deployment(id) ==
    LET found == get_deployment_by_id(id, TRUE) IN
    \E valid \in (IF found # "OK" THEN {found}
                  ELSE check_valid_deployment(deployment[id], 0)) :
       /\ deployment' =
            IF valid = "OK" THEN [deployment EXCEPT ![id].deleted = FALSE]
            ELSE deployment
       /\ last' = Done("undelete_deployment", valid)

\* Names and ids the reference tables may or may not hold.
BAT == <<98, 97, 116>>
N2 == <<110, 50>>

\* The device bodies (DeviceFull, DeviceBase) the model draws from.
DeviceBodies ==
    [id : {"d1"}, devicetype_name : {MOTH}, current_deployment_id : {0, 1}]
    \cup [id : {"d3", "d9"}, devicetype_name : {MOTH},
          current_deployment_id : {0}]
    \cup [id : {"d9"}, devicetype_name : {BAT, XYZ},
          current_deployment_id : {0}]
    \cup [id : {"d9"}, devicetype_name : {MOTH}, current_deployment_id : {3, 9}]

\* The deployment bodies (DeploymentBase) the model draws from.
DeploymentBodies ==
    [network_id : {1}, devicetype_name : {MOTH}, name : {S1, S3, S9}]
    \cup [network_id : {2, 9}, devicetype_name : {MOTH}, name : {S9}]
    \cup [network_id : {1}, devicetype_name : {BAT, XYZ}, name : {S9}]

\* The assignment bodies the model draws from: a live, a deleted and a
\* missing device against a live, a deleted and a missing deployment.
RefBodies ==
    [device_id : {"d1", "d3", "d9"}, deployment_id : {1, 3, 9},
     start_date : {FirstDay}, end_date : {NextDay(FirstDay)}]

CreateDevice ==
    /\ \E body \in DeviceBodies : create_device(body)
    /\ UNCHANGED <<organisation, country, network, devicetype, deployment,
                   deploymentdevice, inference, store, upload, query, inflight>>

UpdateDevice ==
    /\ \E body \in DeviceBodies : update_device(body.id, body)
    /\ UNCHANGED <<organisation, country, network, devicetype, deployment,
                   deploymentdevice, inference, store, upload, query, inflight>>

DeleteDevice ==
    /\ \E id \in {"d1", "d3", "d9"} : delete_device(id)
    /\ UNCHANGED <<organisation, country, network, devicetype, deployment,
                   deploymentdevice, inference, store, upload, query, inflight>>

UndeleteDevice ==
    /\ \E name \in {"d1", "d2", "d9"} : undelete_device(name)
    /\ UNCHANGED <<organisation, country, network, devicetype, deployment,
                   deploymentdevice, inference, store, upload, query, inflight>>

CreateDeployment ==
    /\ \E body \in DeploymentBodies : create_deployment(body)
    /\ UNCHANGED <<organisation, country, network, devicetype, device,
                   deploymentdevice, inference, store, upload, query, inflight>>

UpdateDeployment ==
    /\ \E id \in {1, 3, 9}, body \in DeploymentBodies : update_deployment(id, body)
    /\ UNCHANGED <<organisation, country, network, devicetype, device,
                   deploymentdevice, inference, store, upload, query, inflight>>

DeleteDeployment ==
    /\ \E id \in {1, 3, 9} : delete_deployment(id)
    /\ UNCHANGED <<organisation, country, network, devicetype, device,
                   deploymentdevice, inference, store, upload, query, inflight>>

UndeleteDeployment ==
    /\ \E id \in {1, 3, 9} : undelete_deployment(id)
    /\ UNCHANGED <<organisation, country, network, devicetype, device,
                   deploymentdevice, inference, store, upload, query, inflight>>

\* A create that also makes the deployment the current one of the device.
CreateRefAssignmentSettingCurrent ==
    /\ \E body \in RefBodies :
          /\ create_deploymentdevice(body)
          /\ device' =
                IF check_valid_deploymentdevice(body) = "OK"
                THEN [device EXCEPT ![body.device_id].current_deployment_id =
                                        body.deployment_id]
                ELSE device
    /\ UNCHANGED <<organisation, country, network, devicetype, deployment,
                   inference, store, upload, query, inflight>>

CreateRefAssignment ==
    /\ \E body \in RefBodies : create_deploymentdevice(body)
    /\ UNCHANGED <<refs, inference, store, upload, query, inflight>>

UpdateRefAssignment ==
    /\ \E id \in ReqIds, body \in RefBodies : update_deploymentdevice(id, body)
    /\ UNCHANGED <<refs, inference, store, upload, query, inflight>>

\* The table with one more row, soft-deleted.
WithDeleted(table, key, row) ==
    [k \in DOMAIN table \cup {key} |-> IF k = key THEN row ELSE table[k]]

\* Every reference table holds a live and a soft-deleted row: country "FR",
\* network 2 and device type "bat" are soft-deleted.
InitRefs ==
    /\ organisation = InitOrganisation
    /\ country = WithDeleted(InitCountry, FR, [deleted |-> TRUE])
    /\ network = WithDeleted(InitNetwork, 2,
                             [organisation_name |-> ABC, country_code |-> GB,
                              name |-> N2, deleted |-> TRUE])
    /\ devicetype = WithDeleted(InitDeviceType, BAT,
                                [night_session |-> FALSE, deleted |-> TRUE])
    /\ device = InitDevice
    /\ deployment = InitDeployment
    /\ deploymentdevice = <<>>
    /\ inference = <<>>
    /\ store = <<>>
    /\ last = Done("none", "OK")
    /\ inflight = NoRequests
    /\ upload = NoUpload
    /\ query = NoQuery

NextRefs ==
    \/ CreateDevice
    \/ UpdateDevice
    \/ DeleteDevice
    \/ UndeleteDevice
    \/ CreateDeployment
    \/ UpdateDeployment
    \/ DeleteDeployment
    \/ UndeleteDeployment
    \/ CreateRefAssignment
    \/ UpdateRefAssignment
    \/ DeleteDeploymentDevice
    \/ UndeleteDeploymentDevice

SpecRefs == InitRefs /\ [][NextRefs]_vars

(***************************************************************************)
(* Claims about the assignment write path (specification SpecAssign).     *)
(***************************************************************************)
\* The closed ranges [start_date, end_date] of a and b have a day in common.
SharesDay(a, b) ==
    /\ DateLeq(a.start_date, b.end_date)
    /\ DateLeq(b.start_date, a.end_date)

\* The non-deleted assignments of a device.
LiveRows(device_id) ==
    {i \in DepDevIds : /\ deploymentdevice[i].device_id = device_id
                       /\ deploymentdevice[i].deleted = FALSE}

\* A body that passes the foreign-key and date-order checks.
WellFormed(body) ==
    /\ deployment_exists(body.deployment_id) = "True"
    /\ device_exists(body.device_id) = "True"
    /\ DateLeq(body.start_date, body.end_date)

\* C1: no two non-deleted assignments of the same device have a calendar
\* day in common.
C1_NoSharedDay ==
    \A i, j \in DepDevIds :
        (/\ i # j
         /\ deploymentdevice[i].device_id = deploymentdevice[j].device_id
         /\ ~deploymentdevice[i].deleted
         /\ ~deploymentdevice[j].deleted)
        => ~SharesDay(deploymentdevice[i], deploymentdevice[j])

\* C2: for a device with one non-deleted assignment [s, e], a create whose
\* start date lies inside [s, e] ends with Conflict and stores no row, and
\* a create that starts the day after e and ends later succeeds and stores
\* the row.
C2_CreateAgainstOneAssignment ==
    [][\A body \in Bodies : \A r \in LiveRows(body.device_id) :
          (/\ create_deploymentdevice(body)
           /\ WellFormed(body)
           /\ LiveRows(body.device_id) = {r})
          =>
          /\ (/\ DateLeq(deploymentdevice[r].start_date, body.start_date)
              /\ DateLeq(body.start_date, deploymentdevice[r].end_date))
             => (/\ last'.status = "Conflict"
                 /\ deploymentdevice' = deploymentdevice)
          /\ (/\ body.start_date = NextDay(deploymentdevice[r].end_date)
              /\ DateLess(body.start_date, body.end_date))
             => (/\ last'.status = "OK"
                 /\ Len(deploymentdevice') = Len(deploymentdevice) + 1
                 /\ deploymentdevice'[Len(deploymentdevice')].start_date
                        = body.start_date)]_vars

\* C3: an update whose new range shares a day with no other non-deleted
\* assignment of the device succeeds and is stored, whatever the current
\* range of the row being updated.
C3_UpdateIgnoresOwnRow ==
    [][\A id \in DepDevIds : \A body \in Bodies :
          (/\ update_deploymentdevice(id, body)
           /\ WellFormed(body)
           /\ ~deploymentdevice[id].deleted
           /\ \A j \in LiveRows(body.device_id) \ {id} :
                 ~SharesDay(deploymentdevice[j], body))
          =>
          /\ last'.status = "OK"
          /\ deploymentdevice'[id].start_date = body.start_date
          /\ deploymentdevice'[id].end_date = body.end_date]_vars

(***************************************************************************)
(* Claims about the inference ledger (specification SpecLedger).          *)
(***************************************************************************)
\* C4: at most one non-deleted ledger row per (device_id, session_date).
C4_OneRowPerSession ==
    \A i, j \in InferenceIds :
        (/\ inference[i].device_id = inference[j].device_id
         /\ inference[i].session_date = inference[j].session_date
         /\ ~inference[i].deleted
         /\ ~inference[j].deleted)
        => i = j

\* Two create-or-reopen calls in a row for one device and session date: the
\* second found the row of the first and left exactly one.
C4_SecondCallFoundRow ==
    /\ last.op = "create_inference"
    /\ last.effect = "none"
    /\ Cardinality(InferenceFor(last.device_id, last.session_date)) = 1
    /\ Len(inference) = MaxInference

\* C5: a call of create_inference that returns, made when no non-deleted row
\* exists for (device_id, session_date), appends one row with that device,
\* session date and deployment and completed = false, and leaves every
\* other row as it was.
C5_InsertsOneRow ==
    [][(/\ last'.op = "create_inference"
        /\ last'.status = "OK"
        /\ InferenceFor(last'.device_id, last'.session_date) = {})
       => inference' = Append(inference,
                              [device_id |-> last'.device_id,
                               deployment_id |-> last'.deployment_id,
                               session_date |-> last'.session_date,
                               task_arn |-> "None",
                               completed |-> FALSE,
                               deleted |-> FALSE])]_vars

\* A row was inserted into a ledger that already held another.
C5_Inserted ==
    /\ last.op = "create_inference"
    /\ last.effect = "inserted"
    /\ Len(inference) >= 2
    /\ inference[Len(inference)].device_id = last.device_id

\* C6: a call of create_inference that finds a non-deleted row sets its
\* completed flag to false when it was true, and otherwise leaves the
\* ledger as it was and writes nothing.
C6_ReopenLaw ==
    [][(/\ last'.op = "create_inference"
        /\ last'.status = "OK")
       => \A i \in InferenceFor(last'.device_id, last'.session_date) :
            /\ inference[i].completed
                 => /\ inference' = [inference EXCEPT ![i].completed = FALSE]
                    /\ last'.wrote
            /\ ~inference[i].completed
                 => /\ inference' = inference
                    /\ ~last'.wrote]_vars

\* A completed row was found and reopened.
C6_Reopened ==
    /\ last.op = "create_inference"
    /\ last.effect = "reopened"
    /\ \E i \in InferenceFor(last.device_id, last.session_date) :
          ~inference[i].completed

(***************************************************************************)
(* Claims about the upload orchestrator (specification SpecUpload).       *)
(***************************************************************************)
\* C7: once a transfer of the batch has failed, the request answers nothing
\* but the one BadRequest, create_inference is not called and no step
\* changes the ledger.
C7_FailedBatchNoLedger ==
    [][/\ (upload.pc # "idle" /\ GatherFailed(upload.task))
          => inference' = inference
       /\ (upload'.pc # "idle" /\ GatherFailed(upload'.task))
          => /\ upload'.response \in {"none", "BadRequest"}
             /\ upload'.ledger = "not called"
             /\ upload'.pc = "done" => upload'.response = "BadRequest"]_vars

\* A batch of several files ended with the error after one file was stored
\* and another failed.
C7_PartialFailure ==
    /\ upload.pc = "done"
    /\ upload.response = "BadRequest"
    /\ GatherFailed(upload.task)
    /\ \E i \in 1..Len(upload.task) : upload.task[i] = "done"

\* C8: when every file of the batch is stored and the ledger write fails,
\* the request still returns success.
C8_LedgerFailureTolerated ==
    (/\ upload.pc = "done"
     /\ GatherAllDone(upload.task)
     /\ upload.ledger = "failed")
    => upload.response = "OK"

\* An HHMMSS time stamp: six digits, hours below 24, minutes and seconds
\* below 60.
IsTimeStamp(s) ==
    /\ Len(s) = 6
    /\ \A i \in 1..6 : s[i] \in 48..57
    /\ (s[1] - 48) * 10 + (s[2] - 48) < 24
    /\ s[3] - 48 < 6
    /\ s[5] - 48 < 6

\* C9: a request whose first file name is no HHMMSS time stamp puts no
\* object into the store, and a request that ended with NotFound or
\* BadRequest has put none.
C9_ValidationBeforeStore ==
    /\ (upload.pc # "idle" /\ ~IsTimeStamp(Stem(upload.files[1])))
          => UploadPut = {}
    /\ (upload.pc = "done" /\ upload.response \in {"NotFound", "BadRequest"})
          => UploadPut = {}

(***************************************************************************)
(* Claims about the key prefix (specification SpecPrefix).                *)
(***************************************************************************)
\* C10: the prefix upload_files stores the files of a device on a date
\* under is the prefix validate_prefix builds from the same organisation,
\* country, network, deployment, device type, year, month and day.
C10_SamePrefix ==
    (/\ query.pc = "done"
     /\ query.op = "upload_files"
     /\ query.status = "OK")
    => /\ validate_segments(query.segments).status = "OK"
       /\ validate_segments(query.segments).prefix = query.prefix

(***************************************************************************)
(* Claims about the session date (specification SpecSession).             *)
(***************************************************************************)
\* The time of day of an hhmmss file name, as the number hhmmss.
RECURSIVE Number(_)
Number(digits) ==
    IF digits = <<>> THEN 0
    ELSE 10 * Number(SubSeq(digits, 1, Len(digits) - 1))
         + (digits[Len(digits)] - 48)

TimeOfDay(name) == Number(SubSeq(name, 1, 6))

\* The row the upload in progress has added to the ledger.
RowOfUpload == inference[Len(inference)]

\* C11: the session date of the ledger row of a batch uploaded for date d
\* is the day before d exactly when the device type has night_session and
\* the time of day of the first file name is before 120000, and d otherwise.
C11_SessionDate ==
    (upload.pc = "done" /\ upload.ledger = "inserted")
    => /\ IsTimeStamp(Stem(upload.files[1]))
       /\ RowOfUpload.device_id = upload.device_id
       /\ RowOfUpload.session_date =
             IF upload.night_session /\ TimeOfDay(upload.files[1]) < 120000
             THEN PrevDay(upload.date)
             ELSE upload.date

\* Rows written for a night device at 11:59:59 (the day before) and at
\* 12:00:00 (the day itself), and for a day device before midday.
C11_LastSecondBeforeNoon ==
    /\ upload.pc = "done" /\ upload.ledger = "inserted"
    /\ upload.night_session
    /\ upload.files[1] = StampName(11, 59, 59)
    /\ upload.date = NextDay(NextDay(FirstDay))
    /\ RowOfUpload.session_date = NextDay(FirstDay)

(***************************************************************************)
(* Claims about the metadata of an upload (specification SpecUpload).     *)
(***************************************************************************)
\* The device of the request exists and is not deleted.
LiveDevice(req) ==
    req.device_id \in DOMAIN device /\ ~device[req.device_id].deleted

\* The non-deleted assignments of the device of the request whose range
\* contains the date of the request.
Covering(req) ==
    {j \in DepDevIds :
        /\ deploymentdevice[j].device_id = req.device_id
        /\ ~deploymentdevice[j].deleted
        /\ ~DateLess(req.date, deploymentdevice[j].start_date)
        /\ ~DateLess(deploymentdevice[j].end_date, req.date)}

\* The step is the beginning of a request: upload_files has resolved the
\* metadata and none of its transfer tasks has run.
Begun ==
    /\ upload' # upload
    /\ upload'.pc # "idle"
    /\ \A i \in 1..Len(upload'.task) :
          upload'.task[i] \in {"pending", "not created"}

\* The request was answered before a transfer task was created, and the
\* step that answered it left the store and the ledger alone.
RejectedUntouched(status) ==
    /\ upload'.pc = "done"
    /\ upload'.response = status
    /\ upload'.ledger = "not called"
    /\ \A i \in 1..Len(upload'.task) : upload'.task[i] = "not created"
    /\ store' = store
    /\ inference' = inference

\* C12: an upload for a device on a date takes the deployment of the
\* non-deleted assignment of the device whose range contains the date; with
\* no such assignment it fails with NotFound, stores nothing and writes
\* nothing to the ledger.
C12_DeploymentOfTheDate ==
    [][(Begun /\ LiveDevice(upload'))
       => IF Covering(upload') = {}
          THEN RejectedUntouched("NotFound")
          ELSE /\ upload'.pc = "gather"
               /\ \E j \in Covering(upload') :
                     upload'.deployment_id = deploymentdevice[j].deployment_id]_vars

\* An upload for device "d2", whose only assignment is deleted, was answered
\* NotFound.
C12_NotDeployed ==
    /\ upload.pc = "done"
    /\ upload.device_id = "d2"
    /\ upload.response = "NotFound"
    /\ UploadPut = {}

\* C13: an upload whose device id matches no device, or only a deleted
\* one, is answered NotFound, stores nothing and writes nothing to the
\* ledger.
C13_UnknownDeviceNotFound ==
    (upload.pc # "idle" /\ ~LiveDevice(upload))
    => /\ upload.pc = "done"
       /\ upload.response = "NotFound"
       /\ upload.ledger = "not called"
       /\ UploadPut = {}

(***************************************************************************)
(* Claims about the date order of assignments (specification SpecDates).  *)
(***************************************************************************)
\* A body that names a live device and a live deployment and whose start
\* date is after its end date.
Reversed(body) ==
    /\ deployment_exists(body.deployment_id) = "True"
    /\ device_exists(body.device_id) = "True"
    /\ DateLess(body.end_date, body.start_date)

\* C14: a create or an update whose start date is after its end date, for
\* a device and a deployment that exist and are not deleted, ends with
\* BadRequest and leaves the assignment table unchanged; every stored
\* assignment has start_date <= end_date.
C14_DateOrder ==
    [][/\ \A body \in DateBodies :
            (/\ Reversed(body)
             /\ \/ create_deploymentdevice(body)
                \/ \E id \in ReqIds : update_deploymentdevice(id, body))
            => /\ last'.status = "BadRequest"
               /\ deploymentdevice' = deploymentdevice
       /\ \A i \in 1..Len(deploymentdevice') :
            DateLeq(deploymentdevice'[i].start_date,
                    deploymentdevice'[i].end_date)]_vars

\* An update of a stored row with reversed dates was answered BadRequest.
C14_ReversedUpdateRejected ==
    /\ last = Done("update_deploymentdevice", "BadRequest")
    /\ Len(deploymentdevice) > 0

(***************************************************************************)
(* Claims about resubmission (specification SpecResubmit).                *)
(***************************************************************************)
\* The batch of the request has been uploaded: its session has a row in the
\* ledger (written after every file of the batch was stored).
Uploaded ==
    /\ upload.pc # "idle"
    /\ InferenceFor(upload.device_id,
                    session_date(upload.night_session, upload.files,
                                 upload.date)) # {}

\* C15: once a batch has been uploaded, uploading the same files for the
\* same device and date again, with no ledger update in between, changes
\* neither the set of keys of the store nor the ledger.
C15_ResubmissionSafe ==
    [][Uploaded => /\ DOMAIN store' = DOMAIN store
                   /\ inference' = inference]_vars

\* The second upload of a batch has ended with success and found the row of
\* the first.
C15_UploadedTwice ==
    /\ upload.pc = "done"
    /\ upload.response = "OK"
    /\ upload.ledger = "none"
    /\ Len(inference) = 1
    /\ \A i \in 1..Len(upload.files) :
          Key(upload.prefix, upload.files[i]) \in DOMAIN store

(***************************************************************************)
(* Claims about the key validator (specification SpecPrefix).             *)
(***************************************************************************)
SegmentNames ==
    <<"organisation", "country", "network", "deployment", "devicetype",
      "year", "month", "day">>

\* The segments in the case the tables hold them in, numbers in decimal.
Canonical(s) ==
    <<upper(s.organisation), upper(s.country), s.network, s.deployment,
      lower(s.devicetype), Str(s.year), Str(s.month), Str(s.day)>>

Present(s) ==
    <<s.organisation # <<>>, s.country # <<>>, s.network # <<>>,
      s.deployment # <<>>, s.devicetype # <<>>,
      s.year # 0, s.month # 0, s.day # 0>>

\* The number of segments to the left of the first absent one.
Leading(s) ==
    CHOOSE k \in 0..8 :
        /\ \A i \in 1..k : Present(s)[i]
        /\ k = 8 \/ ~Present(s)[k + 1]

\* The first k strings, joined with "/".
RECURSIVE Join(_, _)
Join(strings, k) ==
    IF k = 0 THEN <<>>
    ELSE IF k = 1 THEN strings[1]
    ELSE Join(strings, k - 1) \o Slash \o strings[k]

\* The segment resolves: a row of its table that is not deleted carries the
\* name (within the organisation and country, or the network, given to its
\* left), or the number is in range.
Resolves(s) ==
    <<\E n \in DOMAIN organisation :
          n = upper(s.organisation) /\ ~organisation[n].deleted,
      \E c \in DOMAIN country :
          c = upper(s.country) /\ ~country[c].deleted,
      \E n \in DOMAIN network :
          /\ network[n].name = s.network /\ ~network[n].deleted
          /\ network[n].organisation_name = upper(s.organisation)
          /\ network[n].country_code = upper(s.country),
      \E d \in DOMAIN deployment :
          /\ deployment[d].name = s.deployment /\ ~deployment[d].deleted
          /\ deployment[d].network_id \in DOMAIN network
          /\ network[deployment[d].network_id].name = s.network
          /\ network[deployment[d].network_id].organisation_name
                = upper(s.organisation)
          /\ network[deployment[d].network_id].country_code
                = upper(s.country),
      \E t \in DOMAIN devicetype :
          t = lower(s.devicetype) /\ ~devicetype[t].deleted,
      s.year >= 2000 /\ s.year <= Today.year,
      s.month >= 1 /\ s.month <= 12,
      IsValidDate(s.year, s.month, s.day)>>

\* A listing request whose prefix has been validated.
Validated == query.pc = "done" /\ query.op = "get_files"

\* C16: validate_prefix returns the "/"-join of the supplied segments to
\* the left of the first absent one, in the order organisation, country,
\* network, deployment, devicetype, year, month, day; the segments to the
\* right of the first absent one are neither validated nor included; with
\* only a valid organisation the result is the organisation code.
C16_JoinOfLeadingSegments ==
    Validated =>
      LET s == query.segments
          k == Leading(s) IN
      /\ (\A i \in 1..k : Resolves(s)[i])
            => /\ query.segment = "none"
               /\ query.prefix = Join(Canonical(s), k)
      /\ query.segment \in {"none"} \cup {SegmentNames[i] : i \in 1..k}
      /\ (k = 1 /\ Resolves(s)[1]) => query.prefix = upper(s.organisation)

\* A listing for organisation "ABC" with no country and a network that does
\* not exist has been validated to the prefix "ABC".
C16_OnlyOrganisation ==
    /\ Validated
    /\ query.segments.organisation = ABC
    /\ query.segments.country = <<>>
    /\ query.segments.network = N9
    /\ query.segments.month = 13
    /\ query.status = "OK"
    /\ query.prefix = ABC

\* No row of the table of the name segment carries the name, deleted or
\* not (within the organisation and country, or the network, to its left).
NoRow(s) ==
    <<upper(s.organisation) \notin DOMAIN organisation,
      upper(s.country) \notin DOMAIN country,
      ~\E n \in DOMAIN network :
          /\ network[n].name = s.network
          /\ network[n].organisation_name = upper(s.organisation)
          /\ network[n].country_code = upper(s.country),
      ~\E d \in DOMAIN deployment :
          /\ deployment[d].name = s.deployment
          /\ deployment[d].network_id \in DOMAIN network
          /\ network[deployment[d].network_id].name = s.network
          /\ network[deployment[d].network_id].organisation_name
                = upper(s.organisation)
          /\ network[deployment[d].network_id].country_code
                = upper(s.country),
      lower(s.devicetype) \notin DOMAIN devicetype>>

\* The name segments to the left of the first absent segment.
LeadingNames(s) == {i \in 1..5 : i <= Leading(s)}

NamesResolve(s) == \A i \in 1..5 : Present(s)[i] /\ Resolves(s)[i]

\* The request carries the numeric parameter.
Supplied(s, name) == name \notin s.none

\* C18: with the five name segments valid, validate_prefix fails with
\* BadRequest and returns no prefix for every supplied year outside 2000 to
\* the current year, every supplied month outside 1 to 12, zero and
\* negative months included, and every supplied day that forms no calendar
\* date with the year and the month.
C18_NumbersOutOfRange ==
    (Validated /\ NamesResolve(query.segments)) =>
      LET s == query.segments
          Rejected == /\ query.status = "BadRequest"
                      /\ query.segment \in {"year", "month", "day"}
                      /\ query.prefix = <<>> IN
      /\ (Supplied(s, "year") /\ ~Resolves(s)[6]) => Rejected
      /\ (/\ Supplied(s, "year") /\ Resolves(s)[6]
          /\ Supplied(s, "month") /\ ~Resolves(s)[7]) => Rejected
      /\ (/\ Supplied(s, "year") /\ Resolves(s)[6]
          /\ Supplied(s, "month") /\ Resolves(s)[7]
          /\ Supplied(s, "day") /\ ~Resolves(s)[8]) => Rejected

(***************************************************************************)
(* Claims about concurrent requests (specifications SpecRaceAssign and    *)
(* SpecRaceLedger).                                                        *)
(***************************************************************************)
\* Process p commits its insert in this step.
Commits(p) == inflight[p].pc = "checked" /\ inflight'[p].pc = "idle"

\* The table holds two non-deleted assignments of one device that have a
\* day in common.
TwoOverlapping(rows) ==
    \E i, j \in 1..Len(rows) :
        /\ i # j
        /\ rows[i].device_id = rows[j].device_id
        /\ ~rows[i].deleted /\ ~rows[j].deleted
        /\ SharesDay(rows[i], rows[j])

\* C19: the overlap check is check-then-act without a lock: when two create
\* requests for one device with overlapping ranges have both passed the
\* check before either has committed, both inserts succeed, and the second
\* leaves two non-deleted overlapping assignments of the device.
C19_CreateRace ==
    [][\A p \in Servers :
          Commits(p) =>
            /\ (\E q \in Checked \ {p} :
                   /\ inflight[q].body.device_id = inflight[p].body.device_id
                   /\ SharesDay(inflight[q].body, inflight[p].body))
               => /\ last'.status = "OK"
                  /\ Len(deploymentdevice') = Len(deploymentdevice) + 1
            /\ (\E i \in LiveRows(inflight[p].body.device_id) :
                   SharesDay(deploymentdevice[i], inflight[p].body))
               => /\ last'.status = "OK"
                  /\ Len(deploymentdevice') = Len(deploymentdevice) + 1
                  /\ TwoOverlapping(deploymentdevice')]_vars

\* Both requests have committed: two overlapping assignments of device
\* "d1" are stored and neither process is in a request.
C19_BothCommitted ==
    /\ TwoOverlapping(deploymentdevice)
    /\ Checked = {}
    /\ last = Done("create_deploymentdevice", "OK")

\* Process p ends its ledger write in this step.
Writes(p) == inflight[p].pc = "looked" /\ inflight'[p].pc = "idle"

\* The ledger holds two non-deleted rows for one device and session date.
TwoRows(rows) ==
    \E i, j \in 1..Len(rows) :
        /\ i # j
        /\ rows[i].device_id = rows[j].device_id
        /\ rows[i].session_date = rows[j].session_date
        /\ ~rows[i].deleted /\ ~rows[j].deleted

\* C20: the ledger create-or-reopen is check-then-act without a lock or a
\* unique constraint: a write whose lookup found no row inserts a row,
\* unless the database fails, also when a row for the same device and
\* session date has been committed since; two uploads that both looked up
\* before either committed leave two non-deleted rows for the pair.
C20_LedgerRace ==
    [][\A p \in Servers :
          (Writes(p) /\ inflight[p].found = 0 /\ last'.status = "OK")
          => /\ last'.effect = "inserted"
             /\ Len(inference') = Len(inference) + 1
             /\ InferenceFor(inflight[p].device_id,
                             inflight[p].session_date) # {}
                  => TwoRows(inference')]_vars

\* Both uploads have written: the ledger holds two rows for one device and
\* session date and neither process is in a request.
C20_BothInserted ==
    /\ TwoRows(inference)
    /\ \A p \in Servers : inflight[p].pc = "idle"
    /\ last.op = "create_inference"
    /\ last.effect = "inserted"

(***************************************************************************)
(* Claims about the current deployment of a device (SpecCurrent).          *)
(***************************************************************************)
\* The key prefix of assignment j for the device and date of a request,
\* read from the assignment, deployment and network tables and the device
\* type name of the device.
AssignedPrefix(j, req) ==
    LET dep == deployment[deploymentdevice[j].deployment_id]
        net == network[dep.network_id] IN
    net.organisation_name \o Slash \o net.country_code \o Slash \o net.name
    \o Slash \o dep.name \o Slash \o device[req.device_id].devicetype_name
    \o Slash \o Str(req.date.year) \o Slash \o Pad2(req.date.month)
    \o Slash \o Pad2(req.date.day)

\* The step inserted a ledger row for the upload in progress.
LedgerInserted ==
    /\ upload.pc = "gather"
    /\ upload'.ledger = "inserted"

\* C21: the key prefix of an upload and the deployment_id of the ledger row
\* it inserts are those of the assignment of the device that covers the
\* date, whatever deployment the device row names as current: two databases
\* that differ only in current_deployment_id give the same prefix and the
\* same ledger row.
C21_CurrentDeploymentIgnored ==
    [][/\ (Begun /\ upload'.pc = "gather")
          => \E j \in Covering(upload') :
                /\ upload'.deployment_id = deploymentdevice[j].deployment_id
                /\ upload'.prefix = AssignedPrefix(j, upload')
       /\ LedgerInserted
          => \E j \in Covering(upload) :
                inference'[Len(inference')] =
                    [device_id |-> upload.device_id,
                     deployment_id |-> deploymentdevice[j].deployment_id,
                     session_date |-> session_date(upload.night_session,
                                                   upload.files, upload.date),
                     completed |-> FALSE, task_arn |-> "None",
                     deleted |-> FALSE]]_vars

\* Device "d1" names deployment 1 as current and its upload for the third
\* day, when it is assigned to deployment 2, inserted a ledger row for
\* deployment 2 under the prefix of deployment 2.
C21_CurrentIsAnother ==
    /\ device["d1"].current_deployment_id = 1
    /\ upload.pc = "done"
    /\ upload.device_id = "d1"
    /\ upload.ledger = "inserted"
    /\ upload.deployment_id = 2
    /\ inference[Len(inference)].deployment_id = 2
    /\ \E k \in DOMAIN store : StartsWith(k, upload.prefix)

(***************************************************************************)
(* Claims about the reference tables (specification SpecRefs).             *)
(***************************************************************************)
\* What a lookup answers for a table and the key of the row it selects.
Answer(table, key) ==
    IF key \notin DOMAIN table THEN "False"
    ELSE IF table[key].deleted THEN "Conflict"
    ELSE "True"

\* Every existence lookup answers true for a live row, false for no row and
\* Conflict for a soft-deleted row; names are looked up in canonical case.
LookupLaw ==
    /\ \A k \in {ABC, ABC_LOWER, OLD, XYZ} :
          organisation_exists(k) = Answer(organisation, upper(k))
    /\ \A k \in {GB, GB_LOWER, FR, XYZ} :
          country_exists(k) = Answer(country, upper(k))
    /\ \A k \in {1, 2, 9} : network_exists(k) = Answer(network, k)
    /\ \A k \in {MOTH, MOTH_TITLE, BAT, XYZ} :
          devicetype_exists(k) = Answer(devicetype, lower(k))
    /\ \A k \in DeviceIds : device_exists(k) = Answer(device, k)
    /\ \A k \in DeploymentIds : deployment_exists(k) = Answer(deployment, k)

\* The body names a soft-deleted device or a soft-deleted deployment.
NamesDeleted(body) ==
    \/ deployment_exists(body.deployment_id) = "Conflict"
    \/ device_exists(body.device_id) = "Conflict"

\* The step is an assignment write with this body: a create, an update, or
\* the undelete of a row that holds it.
AssignmentWrite(body) ==
    \/ create_deploymentdevice(body)
    \/ \E id \in ReqIds : update_deploymentdevice(id, body)
    \/ \E id \in DepDevIds :
          /\ deploymentdevice[id] = [device_id |-> body.device_id,
                                     deployment_id |-> body.deployment_id,
                                     start_date |-> body.start_date,
                                     end_date |-> body.end_date,
                                     deleted |-> TRUE]
          /\ undelete_deploymentdevice(id)

\* The step is the answer to an assignment write.
AssignmentStep ==
    last'.op \in {"create_deploymentdevice", "update_deploymentdevice",
                  "undelete_deploymentdevice"}

\* C22 as stated: the six existence lookups answer true for a live row,
\* false for no row and Conflict for a soft-deleted row, and every
\* assignment write that names a soft-deleted device or deployment ends
\* with Conflict and writes nothing.
C22_DeletedMeansConflict ==
    /\ []LookupLaw
    /\ [][AssignmentStep =>
            \A body \in RefBodies :
               (NamesDeleted(body) /\ AssignmentWrite(body))
               => /\ last'.status = "Conflict"
                  /\ deploymentdevice' = deploymentdevice]_vars

\* C22 amended: the lookups as stated; an assignment write ends with
\* Conflict and writes nothing when it names a soft-deleted deployment, or
\* a soft-deleted device and a live deployment; when it names a soft-deleted
\* device and a missing deployment it ends with NotFound, the deployment
\* being checked first, and writes nothing.
C22_FirstFailingLookup ==
    /\ []LookupLaw
    /\ [][AssignmentStep =>
            \A body \in RefBodies :
               (NamesDeleted(body) /\ AssignmentWrite(body))
               => /\ deploymentdevice' = deploymentdevice
                  /\ last'.status =
                        IF deployment_exists(body.deployment_id) = "False"
                        THEN "NotFound" ELSE "Conflict"]_vars

\* A create that names a soft-deleted device and a live deployment was
\* answered Conflict while no assignment is stored.
C22_DeletedDeviceRejected ==
    /\ last = Done("create_deploymentdevice", "Conflict")
    /\ deploymentdevice = <<>>
    /\ device_exists("d3") = "Conflict"
    /\ deployment_exists(1) = "True"

(***************************************************************************)
(* Claims about the ledger update endpoint (specification SpecLedger).     *)
(***************************************************************************)
\* A body that closes a job: completed, no task.
Closes(body) == body.completed /\ body.task_arn = "None"

\* C23: PUT /inference/{id} with completed = true and task_arn = null on an
\* existing non-deleted row succeeds, leaves that row completed with no
\* task and changes no other row of the ledger (a following upload for the
\* same device and session date then reopens it).
C23_UpdateClosesJob ==
    [][\A id \in InferenceIds, body \in InferenceBodies :
          (/\ ~inference[id].deleted
           /\ Closes(body)
           /\ update_inference(id, body))
          => /\ last'.status = "OK"
             /\ inference'[id].completed
             /\ inference'[id].task_arn = "None"
             /\ \A j \in InferenceIds \ {id} : inference'[j] = inference[j]]_vars

(***************************************************************************)
(* Claims about the presigned URL and the file by path (SpecFile).         *)
(***************************************************************************)
\* The request has been answered.
Answered(op) == query.pc = "done" /\ query.op = op

\* C24: the presigned URL endpoint and the file endpoint validate the key
\* prefix before any call to the store: a request whose leftmost segment
\* that does not resolve has no row, or whose device does not exist, is
\* answered NotFound and the store is not touched, and a presigned URL
\* request for a device deployed on the date returns a URL for
\* prefix/filename.
C24_ValidatedBeforeStore ==
    /\ Answered("get_file")
       => \A i \in 1..5 :
             (/\ \A j \in 1..(i - 1) : Resolves(query.segments)[j]
              /\ NoRow(query.segments)[i])
             => query.status = "NotFound" /\ ~query.touched
    /\ Answered("generate_presigned_url")
       => /\ query.device_id \notin DOMAIN device
             => query.status = "NotFound" /\ ~query.touched
          /\ (LiveDevice(query) /\ Covering(query) # {})
             => /\ query.status = "OK"
                /\ \E md \in get_metadata(query.device_id, query.date) :
                      query.url = Key(get_prefix(md, query.date), query.filename)

(***************************************************************************)
(* Claims about the frame of the assignment writes (SpecRefs).             *)
(***************************************************************************)
\* The step is the answer to a request of the assignment router.
AssignmentRequest ==
    last'.op \in {"create_deploymentdevice", "update_deploymentdevice",
                  "delete_deploymentdevice", "undelete_deploymentdevice"}

\* C25: creating, updating, deleting or undeleting an assignment changes
\* only the assignment table; current_deployment_id of every device, and
\* every other column of every other table, is left as it was.
C25_OnlyAssignmentTable ==
    [][AssignmentRequest
       => /\ DOMAIN device' = DOMAIN device
          /\ \A d \in DOMAIN device :
                device'[d].current_deployment_id = device[d].current_deployment_id
          /\ UNCHANGED <<refs, inference, store>>]_vars

\* Device "d1" is assigned to deployment 1 by the last request and its row
\* names no current deployment.
C25_AssignedNotCurrent ==
    /\ last = Done("create_deploymentdevice", "OK")
    /\ \E i \in DepDevIds :
          /\ deploymentdevice[i].device_id = "d1"
          /\ deploymentdevice[i].deployment_id = 1
          /\ ~deploymentdevice[i].deleted
    /\ device["d1"].current_deployment_id = 0

(***************************************************************************)
(* Claims about the join of the transfers (specification SpecUpload).      *)
(***************************************************************************)
\* The request in progress has been answered.
Responded == upload.pc = "done"

\* C26: when an upload request completes, with success or with the error
\* of a failed transfer, every transfer task of its batch has terminated,
\* and no object of the batch is written to the store after the response.
C26_JoinedBeforeResponse ==
    /\ [](Responded => \A i \in 1..Len(upload.task) : upload.task[i] # "pending")
    /\ [][(Responded /\ upload'.pc = "done" /\ upload'.files = upload.files
            /\ upload'.response = upload.response)
           => store' = store]_vars

(***************************************************************************)
(* Claims about the undelete of an assignment (specification SpecDates).   *)
(***************************************************************************)
\* The non-deleted assignments of the device of row id that share a day
\* with it.
LiveOverlaps(id) ==
    {j \in DepDevIds \ {id} :
        /\ deploymentdevice[j].device_id = deploymentdevice[id].device_id
        /\ ~deploymentdevice[j].deleted
        /\ SharesDay(deploymentdevice[j], deploymentdevice[id])}

\* C27: the undelete of a soft-deleted assignment re-runs the overlap
\* check: it is rejected with Conflict, and the row stays deleted, when a
\* non-deleted assignment of the same device shares a day with it; when
\* none does it succeeds and the row is non-deleted again.
C27_UndeleteChecksOverlap ==
    [][\A id \in DepDevIds :
          (/\ deploymentdevice[id].deleted
           /\ undelete_deploymentdevice(id))
          => IF LiveOverlaps(id) # {}
             THEN /\ last'.status = "Conflict"
                  /\ deploymentdevice'[id].deleted
             ELSE /\ last'.status = "OK"
                  /\ ~deploymentdevice'[id].deleted]_vars

(***************************************************************************)
(* Claims about what the assignments refer to (specification SpecRefs).    *)
(***************************************************************************)
\* Every non-deleted assignment names a device and a deployment that exist
\* and are not deleted.
LiveReferences ==
    \A i \in DepDevIds :
       ~deploymentdevice[i].deleted
       => /\ deploymentdevice[i].device_id \in DOMAIN device
          /\ ~device[deploymentdevice[i].device_id].deleted
          /\ deploymentdevice[i].deployment_id \in DOMAIN deployment
          /\ ~deployment[deploymentdevice[i].deployment_id].deleted

\* A non-deleted assignment names the deployment.
DeploymentAssigned(id) ==
    \E i \in DepDevIds :
        deploymentdevice[i].deployment_id = id /\ ~deploymentdevice[i].deleted

\* The body names a device or a deployment that is missing or deleted.
NamesNoLiveRow(body) ==
    \/ device_exists(body.device_id) # "True"
    \/ deployment_exists(body.deployment_id) # "True"

\* C28: after any sequence of create, update, delete and undelete requests
\* on devices, deployments and assignments, every non-deleted assignment
\* names a device and a deployment that exist and are not deleted: the
\* delete of a device or deployment that a non-deleted assignment names is
\* answered Conflict and changes nothing, and an assignment write that
\* names a missing or deleted device or deployment is rejected and writes
\* nothing.
C28_LiveReferences ==
    /\ []LiveReferences
    /\ [][/\ last'.op = "delete_device"
             => \A id \in DeviceIds :
                   (device_used(id) /\ delete_device(id))
                   => last'.status = "Conflict" /\ device' = device
          /\ last'.op = "delete_deployment"
             => \A id \in DeploymentIds :
                   (DeploymentAssigned(id) /\ delete_deployment(id))
                   => last'.status = "Conflict" /\ deployment' = deployment
          /\ AssignmentStep
             => \A body \in RefBodies :
                   (NamesNoLiveRow(body) /\ AssignmentWrite(body))
                   => /\ last'.status \in {"NotFound", "Conflict"}
                      /\ deploymentdevice' = deploymentdevice]_vars

\* The delete of device "d1" was answered Conflict while "d1" has a
\* non-deleted assignment, and another device has been deleted.
C28_DeleteInUseRejected ==
    /\ last = Done("delete_device", "Conflict")
    /\ device_used("d1")
    /\ ~device["d1"].deleted
    /\ "d9" \in DOMAIN device /\ device["d9"].deleted

(***************************************************************************)
(* Claims about the frame of the ledger call (specification SpecLedger).   *)
(***************************************************************************)
\* The step is a call of create_inference that found a non-deleted row for
\* its device and session date.
FoundRow ==
    /\ last'.op = "create_inference"
    /\ InferenceFor(last'.device_id, last'.session_date) # {}

\* C29: a call of create_inference that finds a non-deleted row for the
\* device and session date adds no row and changes at most the completed
\* flag of a row it found: deployment_id keeps the recorded value whatever
\* deployment the call passes, and task_arn, device_id, session_date and
\* deleted are unchanged, as is every other row.
C29_OnlyCompletedChanges ==
    [][FoundRow
       => /\ Len(inference') = Len(inference)
          /\ \A i \in InferenceIds :
                /\ inference'[i] = [inference[i] EXCEPT
                                       !.completed = inference'[i].completed]
                /\ inference'[i] # inference[i]
                   => i \in InferenceFor(last'.device_id, last'.session_date)]_vars

\* A call that passed deployment 2 reopened a row recorded for
\* deployment 1.
C29_OtherDeploymentPassed ==
    /\ last.op = "create_inference"
    /\ last.effect = "reopened"
    /\ last.deployment_id = 2
    /\ \E i \in InferenceFor(last.device_id, last.session_date) :
          inference[i].deployment_id = 1 /\ ~inference[i].completed

(***************************************************************************)
(* Claims about the legacy upload (specification SpecLegacy).              *)
(***************************************************************************)
\* The concatenation of the first k pieces.
RECURSIVE Concat(_, _)
Concat(pieces, k) ==
    IF k = 0 THEN <<>> ELSE Concat(pieces, k - 1) \o pieces[k]

\* C30: for every list of files and every chunk size of at least 1, the
\* chunks of chunks(files, size) are consecutive pieces whose concatenation
\* is the list, and upload_files hands each file of the list to the
\* transfer manager once, omitting none.
C30_ChunksCoverInput ==
    (upload.pc = "done" /\ upload.op = "upload_files")
    => /\ Concat(upload.chunks, Len(upload.chunks)) = upload.files
       /\ upload.handed = upload.files

=============================================================================
